---- MODULE Spec2Model ----
(***************************************************************************)
(* MediaVue: the background service worker (network capture, per-tab      *)
(* cache, scan pipeline with merge and enrichment) and the shared media    *)
(* classifier.                                                             *)
(*                                                                         *)
(* Strings are sequences of one-character strings, so that startsWith,    *)
(* the extension patterns and includes are computed on the characters.    *)
(* JavaScript objects are records; a property that was never assigned is   *)
(* a field that is not in the record's DOMAIN.  Objects that are shared    *)
(* by reference live in `heap` and are named by their identity.           *)
(***************************************************************************)
EXTENDS Integers, Sequences, FiniteSets, TLC

\* ------------------------------------------------------------------------
\* Strings
\* ------------------------------------------------------------------------

\* String.prototype.startsWith
StartsWith(s, p) ==
    /\ Len(p) <= Len(s)
    /\ \A k \in 1..Len(p) : s[k] = p[k]

\* String.prototype.includes
Includes(s, p) ==
    \E i \in 0..(Len(s) - Len(p)) : \A k \in 1..Len(p) : s[i + k] = p[k]

\* Case folding of the /i flag, on the letters that occur in the inputs.
UpperToLower ==
    [c \in {"A","B","C","D","E","F","G","H","I","J","K","L","M","N","O","P",
            "Q","R","S","T","U","V","W","X","Y","Z"} |->
        CASE c = "A" -> "a" [] c = "B" -> "b" [] c = "C" -> "c" [] c = "D" -> "d"
          [] c = "E" -> "e" [] c = "F" -> "f" [] c = "G" -> "g" [] c = "H" -> "h"
          [] c = "I" -> "i" [] c = "J" -> "j" [] c = "K" -> "k" [] c = "L" -> "l"
          [] c = "M" -> "m" [] c = "N" -> "n" [] c = "O" -> "o" [] c = "P" -> "p"
          [] c = "Q" -> "q" [] c = "R" -> "r" [] c = "S" -> "s" [] c = "T" -> "t"
          [] c = "U" -> "u" [] c = "V" -> "v" [] c = "W" -> "w" [] c = "X" -> "x"
          [] c = "Y" -> "y" [] c = "Z" -> "z"]

Lower(c) == IF c \in DOMAIN UpperToLower THEN UpperToLower[c] ELSE c

\* ------------------------------------------------------------------------
\* utils/media-detector.js: the classifier
\* ------------------------------------------------------------------------

VIDEO == { <<"m","p","4">>, <<"w","e","b","m">>, <<"o","g","v">>, <<"m","o","v">>,
           <<"a","v","i">>, <<"m","k","v">>, <<"f","l","v">>, <<"m","4","v">> }
AUDIO == { <<"m","p","3">>, <<"w","a","v">>, <<"m","4","a">>, <<"a","a","c">>,
           <<"o","g","g">>, <<"o","p","u","s">>, <<"f","l","a","c">>, <<"w","m","a">> }
STREAMING == { <<"m","3","u","8">>, <<"m","p","d">> }
SUBTITLES == { <<"v","t","t">>, <<"s","r","t">>, <<"a","s","s">>, <<"s","s","a">> }

\* /\.(e1|e2|...)($|\?)/i.test(url): some position holds a dot, then one of
\* the extensions (letters compared case-insensitively), then the end of the
\* string or a question mark.
PatternTest(exts, url) ==
    \E i \in 1..Len(url) : \E e \in exts :
        /\ url[i] = "."
        /\ i + Len(e) <= Len(url)
        /\ \A k \in 1..Len(e) : Lower(url[i + k]) = e[k]
        /\ \/ i + Len(e) = Len(url)
           \/ url[i + Len(e) + 1] = "?"

getMediaType(url) ==
    IF PatternTest(VIDEO, url) THEN "video"
    ELSE IF PatternTest(AUDIO, url) THEN "audio"
    ELSE IF PatternTest(STREAMING, url) THEN "streaming"
    ELSE IF PatternTest(SUBTITLES, url) THEN "subtitle"
    ELSE "unknown"

isMediaUrl(url) == getMediaType(url) # "unknown"

ProtectedPrefixes ==
    { <<"c","h","r","o","m","e",":","/","/">>,
      <<"c","h","r","o","m","e","-","e","x","t","e","n","s","i","o","n",":","/","/">>,
      <<"e","d","g","e",":","/","/">>,
      <<"a","b","o","u","t",":">>,
      <<"v","i","e","w","-","s","o","u","r","c","e",":">> }

isProtectedUrlNoViewSource(tab) ==
    IF "url" \notin DOMAIN tab \/ tab.url = <<>> THEN TRUE
    ELSE \E p \in ProtectedPrefixes \ {<<"v","i","e","w","-","s","o","u","r","c","e",":">>} :
            StartsWith(tab.url, p)

\* isProtectedUrl(tab.url): `tab` is the record of the tab; url is undefined
\* when the record has no url field, and !url also holds of the empty string.
isProtectedUrl(tab) ==
    IF "url" \notin DOMAIN tab \/ tab.url = <<>> THEN TRUE
    ELSE \E p \in ProtectedPrefixes : StartsWith(tab.url, p)

Digits == <<"0","1","2","3","4","5","6","7","8","9">>

\* ------------------------------------------------------------------------
\* background.js: manifest analysis (pure helpers of enrichResults)
\* ------------------------------------------------------------------------

NL == "\n"
WhiteSpace == {" ", "\t", "\r", NL}
DigitChars == {"0","1","2","3","4","5","6","7","8","9"}

StreamInfMarker ==
    <<"#","E","X","T","-","X","-","S","T","R","E","A","M","-","I","N","F">>
TargetDurationMarker ==
    <<"#","E","X","T","-","X","-","T","A","R","G","E","T","D","U","R","A","T","I","O","N">>
ExtInfPrefix == <<"#","E","X","T","I","N","F",":">>
M3u8Needle == <<".","m","3","u","8">>

getHlsTypeMediaFirst(content) ==
    IF Includes(content, TargetDurationMarker) THEN <<"media">>
    ELSE IF Includes(content, StreamInfMarker) THEN <<"master">>
    ELSE <<>>

\* getHlsType: "master", "media" or null (the empty sequence)
getHlsType(content) ==
    IF Includes(content, StreamInfMarker) THEN <<"master">>
    ELSE IF Includes(content, TargetDurationMarker) THEN <<"media">>
    ELSE <<>>

\* String.prototype.split('\n')
RECURSIVE SplitLines(_)
SplitLines(s) ==
    IF \E i \in 1..Len(s) : s[i] = NL
    THEN LET i == CHOOSE k \in 1..Len(s) : s[k] = NL /\ \A j \in 1..(k - 1) : s[j] # NL
         IN  <<SubSeq(s, 1, i - 1)>> \o SplitLines(SubSeq(s, i + 1, Len(s)))
    ELSE <<s>>

\* String.prototype.trim
Trim(s) ==
    IF \A i \in 1..Len(s) : s[i] \in WhiteSpace THEN <<>>
    ELSE LET a == CHOOSE i \in 1..Len(s) :
                    s[i] \notin WhiteSpace /\ \A j \in 1..(i - 1) : s[j] \in WhiteSpace
             b == CHOOSE i \in 1..Len(s) :
                    s[i] \notin WhiteSpace /\ \A j \in (i + 1)..Len(s) : s[j] \in WhiteSpace
         IN  SubSeq(s, a, b)

DigitValue(c) == CHOOSE d \in 0..9 : Digits[d + 1] = c

\* The value of a run of digits
RECURSIVE DigitsValue(_)
DigitsValue(ds) ==
    IF ds = <<>> THEN 0
    ELSE 10 * DigitsValue(SubSeq(ds, 1, Len(ds) - 1)) + DigitValue(ds[Len(ds)])

\* The longest prefix of s made of characters of `chars`
PrefixIn(s, chars) ==
    LET n == CHOOSE k \in 0..Len(s) :
                /\ \A j \in 1..k : s[j] \in chars
                /\ k < Len(s) => s[k + 1] \notin chars
    IN  SubSeq(s, 1, n)

\* parseFloat on a run of digits and dots.  Numbers are counted in
\* thousandths (5.0 is 5000), with the arithmetic exact; digits after the third
\* decimal are dropped.  NaN is the empty sequence.
parseFloat(run) ==
    LET int  == PrefixIn(run, DigitChars)
        rest == SubSeq(run, Len(int) + 1, Len(run))
        frac == IF rest # <<>> /\ rest[1] = "."
                THEN PrefixIn(SubSeq(rest, 2, Len(rest)), DigitChars) ELSE <<>>
        f3   == SubSeq(frac \o <<"0","0","0">>, 1, 3)
    IN  IF int = <<>> /\ frac = <<>> THEN <<>>
        ELSE <<1000 * DigitsValue(int) + DigitsValue(f3)>>

\* line.match(/#EXTINF:([\d\.]+)/): the captured group of the first match, or
\* the empty sequence when there is none
ExtInfMatch(line) ==
    LET hits == { i \in 0..(Len(line) - Len(ExtInfPrefix) - 1) :
                    /\ \A k \in 1..Len(ExtInfPrefix) : line[i + k] = ExtInfPrefix[k]
                    /\ line[i + Len(ExtInfPrefix) + 1] \in DigitChars \cup {"."} }
    IN  IF hits = {} THEN <<>>
        ELSE LET i == CHOOSE h \in hits : \A g \in hits : h <= g
             IN  <<PrefixIn(SubSeq(line, i + Len(ExtInfPrefix) + 1, Len(line)),
                            DigitChars \cup {"."})>>

\* totalSeconds += parseFloat(match[1]); NaN absorbs every later addition
RECURSIVE SumDurations(_, _)
SumDurations(lines, total) ==
    IF lines = <<>> THEN total
    ELSE LET line == Head(lines)
             m    == IF StartsWith(line, ExtInfPrefix) THEN ExtInfMatch(line) ELSE <<>>
             next == IF m = <<>> THEN total
                     ELSE IF total = <<>> \/ parseFloat(m[1]) = <<>> THEN <<>>
                     ELSE <<total[1] + parseFloat(m[1])[1]>>
         IN  SumDurations(Tail(lines), next)

\* calculateHlsDuration: <<thousandths>>, or <<>> for NaN
calculateHlsDuration(manifestContent) == SumDurations(SplitLines(manifestContent), <<0>>)

\* The part of an absolute URL before its path: scheme://host
UrlOrigin(url) ==
    LET slashes == { i \in 1..Len(url) : url[i] = "/" }
        third   == { i \in slashes : Cardinality({ j \in slashes : j < i }) = 2 }
    IN  IF third = {} THEN url ELSE SubSeq(url, 1, (CHOOSE i \in third : TRUE) - 1)

\* URL.pathname: from the end of the origin to the query or the fragment
UrlPathname(url) ==
    LET rest == SubSeq(url, Len(UrlOrigin(url)) + 1, Len(url))
        p    == PrefixIn(rest, { rest[i] : i \in 1..Len(rest) } \ {"?", "#"})
    IN  IF p = <<>> THEN <<"/">> ELSE p

\* The directory of a path: the path up to, not including, its last slash
DirName(path) ==
    LET last == CHOOSE i \in 1..Len(path) :
                    path[i] = "/" /\ \A j \in (i + 1)..Len(path) : path[j] # "/"
    IN  SubSeq(path, 1, last - 1)

HttpScheme == <<"h","t","t","p",":","/","/">>

\* new URL(ref, base).href for an absolute base: an absolute http reference
\* is taken as it is, a reference that starts with a slash replaces the path,
\* any other reference replaces the last segment of the base's path.
ResolveUrl(ref, base) ==
    IF StartsWith(ref, HttpScheme) THEN ref
    ELSE IF StartsWith(ref, <<"/">>) THEN UrlOrigin(base) \o ref
    ELSE UrlOrigin(base) \o DirName(UrlPathname(base)) \o <<"/">> \o ref

\* resolveFirstStreamUrl: <<url>>, or <<>> for null
resolveFirstStreamUrl(masterUrl, masterContent) ==
    LET lines == SplitLines(masterContent)
        IsPath(j) == Trim(lines[j]) # <<>> /\ ~StartsWith(lines[j], <<"#">>)
        found == { i \in 1..Len(lines) :
                     /\ StartsWith(lines[i], StreamInfMarker)
                     /\ \E j \in (i + 1)..Len(lines) : IsPath(j) }
    IN  IF found = {} THEN <<>>
        ELSE LET i == CHOOSE f \in found : \A g \in found : f <= g
                 j == CHOOSE k \in (i + 1)..Len(lines) :
                        IsPath(k) /\ \A m \in (i + 1)..(k - 1) : ~IsPath(m)
             IN  <<ResolveUrl(Trim(lines[j]), masterUrl)>>

MasterCandidates ==
    << <<"m","a","s","t","e","r",".","m","3","u","8">>,
       <<"p","l","a","y","l","i","s","t",".","m","3","u","8">>,
       <<"i","n","d","e","x",".","m","3","u","8">>,
       <<"m","a","n","i","f","e","s","t",".","m","3","u","8">> >>

suggestPlaylistUrl(mediaUrl) ==
    UrlOrigin(mediaUrl) \o DirName(UrlPathname(mediaUrl)) \o <<"/">> \o MasterCandidates[2]

\* suggestMasterUrl: `${url.origin}${baseDir}/${candidates[0]}`
suggestMasterUrl(mediaUrl) ==
    UrlOrigin(mediaUrl) \o DirName(UrlPathname(mediaUrl)) \o <<"/">> \o MasterCandidates[1]

\* text.substring(0, 1024)
PrefixLimit == 1024

ContentPrefix(text) == SubSeq(text, 1, IF Len(text) < PrefixLimit THEN Len(text) ELSE PrefixLimit)

\* ------------------------------------------------------------------------
\* URLs of the model
\* ------------------------------------------------------------------------

BlobPrefix == <<"b","l","o","b",":">>
HostPrefix == <<"h","t","t","p",":","/","/","h","/">>

UrlMp4  == HostPrefix \o <<"a",".","m","p","4">>
UrlMp3  == HostPrefix \o <<"b",".","M","P","3","?","t","=","1">>
UrlM3u8 == HostPrefix \o <<"c",".","m","3","u","8">>
UrlVtt  == HostPrefix \o <<"e",".","v","t","t">>
UrlPage == HostPrefix \o <<"p","a","g","e">>
UrlBlob == BlobPrefix \o HostPrefix \o <<"f",".","m","p","4">>

\* http://h/NNN.mp4, the i-th of a family of distinct video URLs
Filler(i) ==
    HostPrefix \o << Digits[((i \div 100) % 10) + 1], Digits[((i \div 10) % 10) + 1],
                     Digits[(i % 10) + 1] >> \o <<".","m","p","4">>

\* ------------------------------------------------------------------------
\* Bounds and constants
\* ------------------------------------------------------------------------

\* background.js: "Keep the last 100 requests per tab"
MaxEntries == 100

\* Date.now() is read from a clock that advances at most this far.
MaxClock == 1

\* The near-full caches of InitStore hold MaxEntries - Slack .. MaxEntries entries.
Slack == 1

TabIds == {1, 2}

\* details.tabId is negative for requests that belong to no tab.
RequestTabIds == TabIds \cup {-1}

VARIABLES
    tabMediaCache,   \* Map tabId -> array of (references to) cache entries
    heap,            \* object identity -> the object's properties
    now,             \* Date.now()
    closedTabs,      \* tabs whose onRemoved event has been handled
    scans,           \* the scan_page requests: position, locals, response
    scanCount,       \* the number of scan_page messages received
    download,        \* the run of downloadHlsStream in the side panel
    classifier,      \* the pattern objects and the calls made on the classifier
    page,            \* a tab's document and the content script injected into it
    notified,        \* the runtime messages the service worker sent in its last step
    stale,           \* per tab, the URLs captured before its last reload and not requested since
    panel            \* the side panel: its scans, its result list, its downloads

vars == <<tabMediaCache, heap, now, closedTabs, scans, scanCount, download, classifier,
          page, notified, stale, panel>>

\* ------------------------------------------------------------------------
\* Objects
\* ------------------------------------------------------------------------

\* item.field = value
SetField(obj, field, value) ==
    [f \in DOMAIN obj \cup {field} |-> IF f = field THEN value ELSE obj[f]]

\* Object identities: <<"net", tabId, n>> for an entry created by the network
\* listener for tabId, <<"dom", scan, i>> for the i-th item of the DOM list
\* that a scan received.  A new entry takes an identity no live object has.
NewId(h, tabId) ==
    <<"net", tabId,
      CHOOSE n \in 1..(Cardinality(DOMAIN h) + 1) : <<"net", tabId, n>> \notin DOMAIN h>>

Range(s) == { s[i] : i \in DOMAIN s }

\* The objects that the cache map still references.
CacheRefs(cache) == UNION { Range(cache[t]) : t \in DOMAIN cache }

\* Garbage collection: objects nothing references any more cease to exist.
Collect(h, live) == [id \in DOMAIN h \cap live |-> h[id]]

\* The objects that the scans still reference (the merged arrays).
ScanRefs(sc) == UNION { Range(sc[s].merged) : s \in DOMAIN sc }

\* ------------------------------------------------------------------------
\* background.js: the network listener and the tab-removal listener
\* ------------------------------------------------------------------------

\* cache.some(item => item.url === url)
CacheHasUrl(cache, h, url) == \E i \in DOMAIN cache : h[cache[i]].url = url

\* { url, type: getMediaType(url), source: 'network', timestamp: Date.now() }
NetworkItem(url, time) ==
    [url |-> url, type |-> getMediaType(url), source |-> "network", timestamp |-> time]

\* The early returns of the listener: no tab, a blob: URL, not a media URL
IgnoredUnlessBlob(tabId, url) == tabId < 0 \/ StartsWith(url, BlobPrefix)

Ignored(tabId, url) == tabId < 0 \/ StartsWith(url, BlobPrefix) \/ ~isMediaUrl(url)

\* if (cache.length > 100) cache.shift()
ShiftNever(cache) == cache

ShiftSecond(cache) ==
    IF Len(cache) > MaxEntries THEN <<cache[1]>> \o SubSeq(cache, 3, Len(cache)) ELSE cache

ShiftOverflow(cache) == IF Len(cache) > MaxEntries THEN Tail(cache) ELSE cache

\* cache.push(item), then the overflow check
PushItem(cache, id) == ShiftOverflow(Append(cache, id))

\* chrome.runtime.sendMessage({ action: 'new_media_detected', tabId, url })
\* .catch(() => {}): the messages one append sends, each with the handler of
\* its rejection
NewMediaTwice(tabId, url) ==
    LET m == [action |-> "new_media_detected", tabId |-> tabId, url |-> url,
              onRejected |-> "ignore"]
    IN  <<m, m>>

NewMediaDetected(tabId, url) ==
    << [action |-> "new_media_detected", tabId |-> tabId, url |-> url,
        onRejected |-> "ignore"] >>

\* What the tabs have requested since their last reload: before any reload,
\* no captured URL is older than the page the tab shows.
NoReload == [t \in TabIds |-> {}]

\* A request of the tab's page that the listener looks at brings its URL up
\* to date, whether the listener appends it or finds it in the collection.
Requested(st, tabId, url) ==
    IF Ignored(tabId, url) THEN st
    ELSE [t \in DOMAIN st |-> IF t = tabId THEN st[t] \ {url} ELSE st[t]]

\* chrome.webRequest.onBeforeRequest listener
OnBeforeRequest(tabId, url) ==
    /\ IF Ignored(tabId, url)
       THEN /\ UNCHANGED <<tabMediaCache, heap>>
            /\ notified' = <<>>
       ELSE LET cache == IF tabId \in DOMAIN tabMediaCache
                         THEN tabMediaCache[tabId] ELSE <<>>
                id == NewId(heap, tabId)
            IN  IF CacheHasUrl(cache, heap, url)
                THEN /\ UNCHANGED <<tabMediaCache, heap>>
                     /\ notified' = <<>>
                ELSE /\ tabMediaCache' = (tabId :> PushItem(cache, id)) @@ tabMediaCache
                     /\ heap' = Collect((id :> NetworkItem(url, now)) @@ heap,
                                        CacheRefs(tabMediaCache') \cup ScanRefs(scans))
                     /\ notified' = NewMediaDetected(tabId, url)
    /\ UNCHANGED <<now, closedTabs, scans, scanCount, download, classifier, page, panel>>
    /\ stale' = Requested(stale, tabId, url)

\* chrome.tabs.onRemoved listener: tabMediaCache.delete(tabId)
OnRemoved(tabId) ==
    /\ tabId \notin closedTabs
    /\ closedTabs' = closedTabs \cup {tabId}
    /\ tabMediaCache' = [t \in DOMAIN tabMediaCache \ {tabId} |-> tabMediaCache[t]]
    /\ heap' = Collect(heap, CacheRefs(tabMediaCache') \cup ScanRefs(scans))
    /\ UNCHANGED <<now, scans, scanCount, download, classifier, page, panel>>
    /\ stale' = [t \in DOMAIN stale |-> IF t = tabId THEN {} ELSE stale[t]]
    /\ notified' = <<>>

\* The tab reloads its page (the user's reload, or chrome.tabs.reload from the
\* onInstalled listener).  The tab keeps its id; the service worker registers
\* no listener for it (tabs.onUpdated, webNavigation), so none of its code runs.
Reload(tabId) ==
    /\ tabId \notin closedTabs
    /\ stale' = [t \in DOMAIN stale |->
                   IF t = tabId
                   THEN stale[t] \cup (IF t \in DOMAIN tabMediaCache
                                        THEN { heap[id].url : id \in Range(tabMediaCache[t]) }
                                        ELSE {})
                   ELSE stale[t]]
    /\ UNCHANGED <<tabMediaCache, heap, now, closedTabs, scans, scanCount, download,
                   classifier, page, panel>>
    /\ notified' = <<>>

\* The clock that Date.now() reads advances.
Tick ==
    /\ now < MaxClock
    /\ now' = now + 1
    /\ UNCHANGED <<tabMediaCache, heap, closedTabs, scans, scanCount, download, classifier, page, panel>>
    /\ UNCHANGED stale
    /\ notified' = <<>>

\* ------------------------------------------------------------------------
\* background.js: the scan_page handler
\* ------------------------------------------------------------------------

\* The scan_page messages that the model follows.
MaxScans == 2

\* The scans that can be in progress at the same time: the popup sends one
\* scan_page message per click and waits for its response.
ScanIds == {1}

NoTabIdError     == "No tab ID specified"
TabAccessError   == "Unable to access tab information."
ProtectedError   == "Extension cannot scan protected browser pages (like chrome:// URLs)."
ScanFailedError  == "Failed to scan page. Extension may not have access to this page."

\* A scan: pc is the callback it waits for; tabId, tab (<<>> until tabs.get
\* answered with a tab) and domAnswered (domMedia was not undefined) are its
\* locals; calls are the host functions and store reads it has made; merged is
\* the array `combined`; tasks the state of the enrichment function of each
\* merged item; response what sendResponse got.
IdleScan ==
    [pc |-> "idle", tabId |-> 0, tab |-> <<>>, domAnswered |-> FALSE, calls |-> {},
     merged |-> <<>>, tasks |-> <<>>, response |-> <<>>]

\* sendResponse(value): the scan is over and its closure is dropped
Responded(scan, value) ==
    [scan EXCEPT !.pc = "responded", !.merged = <<>>, !.tasks = <<>>,
                 !.response = <<value>>]

\* mergeAndDeduplicate: addIfUnique over dom, then over network.  `acc` holds
\* seenUrls and merged; items are references into h.
addIfUniqueAlways(acc, h, item) ==
    [seenUrls |-> acc.seenUrls \cup {h[item].url}, merged |-> Append(acc.merged, item)]

addIfUnique(acc, h, item) ==
    IF h[item].url \notin acc.seenUrls
    THEN [seenUrls |-> acc.seenUrls \cup {h[item].url}, merged |-> Append(acc.merged, item)]
    ELSE acc

RECURSIVE ForEachAdd(_, _, _)
ForEachAdd(acc, h, items) ==
    IF items = <<>> THEN acc
    ELSE ForEachAdd(addIfUnique(acc, h, Head(items)), h, Tail(items))

mergeDomOnly(h, dom, network) ==
    ForEachAdd([seenUrls |-> {}, merged |-> <<>>], h, dom).merged

mergeAndDeduplicate(h, dom, network) ==
    ForEachAdd(ForEachAdd([seenUrls |-> {}, merged |-> <<>>], h, dom), h, network).merged

\* utils/url-utils.js deduplicateMedia with the last item of each URL kept
deduplicateMediaLast(h, medialist) ==
    LET kept == { i \in DOMAIN medialist :
                    \A j \in (i + 1)..Len(medialist) : h[medialist[j]].url # h[medialist[i]].url }
    IN  [k \in 1..Cardinality(kept) |->
           medialist[CHOOSE i \in kept : Cardinality({ j \in kept : j <= i }) = k]]

\* utils/url-utils.js deduplicateMedia: medialist.filter over a Set `seen` of
\* the URLs of the items before; the index i is kept when no item before it
\* has its URL
deduplicateMedia(h, medialist) ==
    LET kept == { i \in DOMAIN medialist :
                    \A j \in 1..(i - 1) : h[medialist[j]].url # h[medialist[i]].url }
    IN  [k \in 1..Cardinality(kept) |->
           medialist[CHOOSE i \in kept : Cardinality({ j \in kept : j <= i }) = k]]

\* enrichResults, the function of one item up to its first await: the request
\* it has issued, or "done" when it has returned.
HlsStep(item) ==
    IF item.type = "streaming" /\ Includes(item.url, M3u8Needle) THEN "GET" ELSE "done"

SizeStep(item) ==
    IF item.type = "video" \/ item.type = "audio" THEN "HEAD" ELSE HlsStep(item)

\* Promise.all(enrichmentPromises) has resolved
SomeSettled(tasks) == tasks = <<>> \/ \E i \in DOMAIN tasks : tasks[i].pc = "done"

AllSettled(tasks) == \A i \in DOMAIN tasks : tasks[i].pc = "done"

\* parseInt(text, 10): <<n>>, or <<>> for NaN
parseInt(text) ==
    LET ds == PrefixIn(Trim(text), DigitChars)
    IN  IF ds = <<>> THEN <<>> ELSE <<DigitsValue(ds)>>

\* fetchFileSize, from the outcome of its HEAD request (rejected, also by the
\* 2 s abort; or a response).  <<n>> for a number; <<>> for null and for NaN,
\* which the caller does not tell apart.
fetchFileSize(outcome) ==
    IF "rejected" \in DOMAIN outcome THEN <<>>
    ELSE IF ~outcome.ok THEN <<>>
    ELSE IF "contentLength" \notin DOMAIN outcome \/ outcome.contentLength = <<>> THEN <<>>
    ELSE parseInt(outcome.contentLength)

\* What the HEAD request did: it was rejected (a network error, or the abort
\* of the 2 s timer), or it was answered with a status that is OK or not.
ProbeResult(outcome) ==
    IF "rejected" \in DOMAIN outcome THEN "rejected"
    ELSE IF outcome.ok THEN "ok" ELSE "not ok"

\* fetchHlsContent, from the outcome of its GET request: <<prefix>>, or <<>>
\* for null
fetchHlsContent(outcome) ==
    IF "rejected" \in DOMAIN outcome THEN <<>>
    ELSE IF ~outcome.ok THEN <<>>
    ELSE <<ContentPrefix(outcome.text)>>

\* if (size) item.size = size
AssignSize(item, size) ==
    IF size # <<>> /\ size[1] # 0 THEN SetField(item, "size", size[1]) ELSE item

\* if (duration > 0) item.duration = duration
AssignDuration(item, duration) ==
    IF duration # <<>> /\ duration[1] > 0 THEN SetField(item, "duration", duration[1])
    ELSE item

\* const domResults = domMedia || []
DomResults(args) == IF args = <<>> THEN <<>> ELSE args[1]

NetworkResultsOfAnyTab(cache, tabId) ==
    IF DOMAIN cache = {} THEN <<>> ELSE cache[CHOOSE t \in DOMAIN cache : TRUE]

\* const networkResults = tabMediaCache.get(tabId) || []
NetworkResults(cache, tabId) == IF tabId \in DOMAIN cache THEN cache[tabId] ELSE <<>>

\* The objects a state references: cache entries and the scans' merged items.
Live(cache, sc) == CacheRefs(cache) \cup ScanRefs(sc)

\* chrome.runtime.onMessage listener, action 'scan_page'.  tabId 0 stands for
\* a message and a sender that name no tab.
ScanPage(s, tabId) ==
    /\ scans[s].pc \in {"idle", "responded"}
    /\ scanCount < MaxScans
    /\ scanCount' = scanCount + 1
    /\ scans' = [scans EXCEPT ![s] =
          IF tabId = 0
          THEN Responded([IdleScan EXCEPT !.tabId = tabId], [error |-> NoTabIdError])
          ELSE [IdleScan EXCEPT !.pc = "tabs.get", !.tabId = tabId,
                                !.calls = {"tabs.get"}]]
    /\ UNCHANGED <<tabMediaCache, heap, now, closedTabs, download, classifier, page, panel>>
    /\ UNCHANGED stale
    /\ notified' = <<>>

\* The callback of chrome.tabs.get.  result is <<>> when the lookup failed
\* (lastError, no tab) and <<tab>> otherwise.
TabsGetCallback(s, result) ==
    /\ scans[s].pc = "tabs.get"
    /\ result # <<>> => scans[s].tabId \notin closedTabs
    /\ scans' = [scans EXCEPT ![s] =
          IF result = <<>> THEN Responded(@, [error |-> TabAccessError])
          ELSE IF isProtectedUrl(result[1])
          THEN Responded([@ EXCEPT !.tab = result], [error |-> ProtectedError])
          ELSE [@ EXCEPT !.pc = "executeScript", !.tab = result,
                         !.calls = @ \cup {"scripting.executeScript"}]]
    /\ UNCHANGED <<tabMediaCache, heap, now, closedTabs, scanCount, download, classifier, page, panel>>
    /\ UNCHANGED stale
    /\ notified' = <<>>

\* chrome.scripting.executeScript settles: .then sends the extraction
\* message, .catch responds with the error.
ExecuteScriptSettled(s, fulfilled) ==
    /\ scans[s].pc = "executeScript"
    /\ scans' = [scans EXCEPT ![s] =
          IF fulfilled
          THEN [@ EXCEPT !.pc = "sendMessage", !.calls = @ \cup {"tabs.sendMessage"}]
          ELSE Responded(@, [error |-> ScanFailedError])]
    /\ UNCHANGED <<tabMediaCache, heap, now, closedTabs, scanCount, download, classifier, page, panel>>
    /\ UNCHANGED stale
    /\ notified' = <<>>

\* The callback of chrome.tabs.sendMessage.  args is <<>> when no answer came
\* (domMedia undefined) and <<list>> otherwise.  Merges and starts enrichment.
SendMessageCallback(s, args) ==
    /\ scans[s].pc = "sendMessage"
    /\ LET tabId == scans[s].tabId
           domResults == DomResults(args)
           domIds == [i \in DOMAIN domResults |-> <<"dom", s, i>>]
           h1 == [id \in Range(domIds) |-> domResults[id[3]]] @@ heap
           networkResults == NetworkResults(tabMediaCache, tabId)
           combined == mergeAndDeduplicate(h1, domIds, networkResults)
       IN  /\ scans' = [scans EXCEPT ![s] =
                 [@ EXCEPT !.pc = "enrich",
                           !.domAnswered = (args # <<>>),
                           !.calls = @ \cup {"tabMediaCache.get"},
                           !.merged = combined,
                           !.tasks = [i \in DOMAIN combined |->
                                        [pc |-> SizeStep(h1[combined[i]])]]]]
           /\ heap' = Collect(h1, Live(tabMediaCache, scans'))
    /\ UNCHANGED <<tabMediaCache, now, closedTabs, scanCount, download, classifier, page, panel>>
    /\ UNCHANGED stale
    /\ notified' = <<>>

\* The HEAD request of item i settles; the item's function runs on to its
\* next await or to its return.
HeadSettled(s, i, outcome) ==
    /\ scans[s].pc = "enrich"
    /\ i \in DOMAIN scans[s].tasks
    /\ scans[s].tasks[i].pc = "HEAD"
    /\ LET id   == scans[s].merged[i]
           size == fetchFileSize(outcome)
           item == AssignSize(heap[id], size)
       IN  /\ heap' = [heap EXCEPT ![id] = item]
           /\ scans' = [scans EXCEPT ![s].tasks[i] =
                 [pc |-> HlsStep(item), size |-> size, probe |-> ProbeResult(outcome)]]
    /\ UNCHANGED <<tabMediaCache, now, closedTabs, scanCount, download, classifier, page, panel>>
    /\ UNCHANGED stale
    /\ notified' = <<>>

\* The GET request for the manifest of item i settles.
GetSettled(s, i, outcome) ==
    /\ scans[s].pc = "enrich"
    /\ i \in DOMAIN scans[s].tasks
    /\ scans[s].tasks[i].pc = "GET"
    /\ LET id      == scans[s].merged[i]
           content == fetchHlsContent(outcome)
           hlsType == IF content = <<>> \/ content[1] = <<>> THEN <<>>
                      ELSE getHlsType(content[1])
           typed   == SetField(heap[id], "hlsType", hlsType[1])
           mediaUrl == resolveFirstStreamUrl(heap[id].url, content[1])
       IN  IF hlsType = <<>>
           THEN /\ heap' = heap
                /\ scans' = [scans EXCEPT ![s].tasks[i] = [pc |-> "done"]]
           ELSE IF hlsType[1] = "media"
           THEN /\ heap' = [heap EXCEPT ![id] =
                      SetField(AssignDuration(typed, calculateHlsDuration(content[1])),
                               "suggestedMaster", suggestMasterUrl(heap[id].url))]
                /\ scans' = [scans EXCEPT ![s].tasks[i] = [pc |-> "done"]]
           ELSE /\ heap' = [heap EXCEPT ![id] = typed]
                /\ scans' = [scans EXCEPT ![s].tasks[i] =
                      [pc |-> IF mediaUrl # <<>> THEN "GET2" ELSE "done"]]
    /\ UNCHANGED <<tabMediaCache, now, closedTabs, scanCount, download, classifier, page, panel>>
    /\ UNCHANGED stale
    /\ notified' = <<>>

\* The GET request for the first stream's playlist of master item i settles.
Get2Settled(s, i, outcome) ==
    /\ scans[s].pc = "enrich"
    /\ i \in DOMAIN scans[s].tasks
    /\ scans[s].tasks[i].pc = "GET2"
    /\ LET id == scans[s].merged[i]
           mediaContent == fetchHlsContent(outcome)
           duration == IF mediaContent = <<>> \/ mediaContent[1] = <<>> THEN <<0>>
                       ELSE calculateHlsDuration(mediaContent[1])
       IN  /\ heap' = [heap EXCEPT ![id] = AssignDuration(heap[id], duration)]
           /\ scans' = [scans EXCEPT ![s].tasks[i] = [pc |-> "done"]]
    /\ UNCHANGED <<tabMediaCache, now, closedTabs, scanCount, download, classifier, page, panel>>
    /\ UNCHANGED stale
    /\ notified' = <<>>

\* enrichResults(combined).then(enriched => sendResponse({ results: enriched }))
Respond(s) ==
    /\ scans[s].pc = "enrich"
    /\ AllSettled(scans[s].tasks)
    /\ scans' = [scans EXCEPT ![s] =
          Responded(@, [results |-> [i \in DOMAIN scans[s].merged |->
                                        heap[scans[s].merged[i]]]])]
    /\ heap' = Collect(heap, Live(tabMediaCache, scans'))
    /\ UNCHANGED <<tabMediaCache, now, closedTabs, scanCount, download, classifier, page, panel>>
    /\ UNCHANGED stale
    /\ notified' = <<>>

\* ------------------------------------------------------------------------
\* The scan pipeline with the network listener
\* ------------------------------------------------------------------------

HttpPage == HostPrefix

PageUrls ==
    { HttpPage, <<>>,
      <<"c","h","r","o","m","e",":","/","/","x">>,
      <<"c","h","r","o","m","e","-","e","x","t","e","n","s","i","o","n",":","/","/","e","/","p">>,
      <<"e","d","g","e",":","/","/","s">>,
      <<"a","b","o","u","t",":","b","l","a","n","k">>,
      <<"v","i","e","w","-","s","o","u","r","c","e",":">> \o HttpPage }

\* What chrome.tabs.get can hand to its callback for tab t
TabResults(t) == { <<>>, <<[id |-> t]>> } \cup { <<[id |-> t, url |-> u]>> : u \in PageUrls }

\* Lists the content script can answer with (unique URLs, source 'dom')
DomSource == [url |-> UrlMp4, type |-> "audio", source |-> "dom", tagName |-> "source"]
DomTrack  == [url |-> UrlVtt, type |-> "subtitle", source |-> "dom", tagName |-> "track"]
DomLink   == [url |-> UrlM3u8, type |-> "streaming", source |-> "dom", tagName |-> "a"]

DomAnswers == { <<>>, << <<>> >>, << <<DomSource, DomTrack>> >>, << <<DomLink>> >> }

HeadOutcomes ==
    { [rejected |-> TRUE], [ok |-> FALSE], [ok |-> TRUE],
      [ok |-> TRUE, contentLength |-> <<"7">>],
      [ok |-> TRUE, contentLength |-> <<"0">>] }

MediaText ==
    TargetDurationMarker \o <<":","5",NL>>
    \o ExtInfPrefix \o <<"5",".","0",",",NL,"s","0",".","t","s",NL>>
    \o ExtInfPrefix \o <<"4",".","5",",",NL,"s","1",".","t","s",NL>>

MasterText ==
    StreamInfMarker \o <<":","B","A","N","D","W","I","D","T","H","=","1",NL>>
    \o <<"l","o","w",".","m","3","u","8",NL>>

HtmlText == <<"<","h","t","m","l",">">>

\* A media playlist of more than 1024 characters: the two segments of
\* MediaText, a long comment line, and a third segment of 10.333 s
LongMediaText ==
    MediaText \o <<"#">> \o [i \in 1..PrefixLimit |-> "-"] \o <<NL>>
    \o ExtInfPrefix \o <<"1","0",".","3","3","3",",",NL,"s","2",".","t","s",NL>>

GetOutcomes ==
    { [rejected |-> TRUE], [ok |-> FALSE] }
    \cup { [ok |-> TRUE, text |-> t] :
             t \in { MediaText, MasterText, HtmlText, <<>>, LongMediaText } }

\* The requests of the pages: the page of tab 2 loads a single media file.
ScanUrls(t) == IF t = 2 THEN { UrlMp4 } ELSE { UrlMp4, UrlM3u8, UrlPage, UrlBlob }

\* ------------------------------------------------------------------------
\* utils/media-detector.js: downloadHlsStream, run by the side panel
\* ------------------------------------------------------------------------

\* The longest playlist the server of the model answers with.
MaxSegments == 3

SegmentNames == { <<"a",".","t","s">>, <<"b",".","t","s">>, <<"c",".","t","s">> }

\* The bytes the server holds for a segment URL
SegmentBody(url) ==
    CASE url[Len(url) - 3] = "a" -> <<1, 2>>
      [] url[Len(url) - 3] = "b" -> <<3>>
      [] OTHER -> <<4, 5, 6>>

RECURSIVE SegmentLines(_)
SegmentLines(refs) ==
    IF refs = <<>> THEN <<>>
    ELSE ExtInfPrefix \o <<"1", ",", NL>> \o Head(refs) \o <<NL>> \o SegmentLines(Tail(refs))

\* A media playlist whose segment lines are refs, in that order
PlaylistText(refs) == TargetDurationMarker \o <<":", "1", NL>> \o SegmentLines(refs)

Playlists ==
    { PlaylistText(refs) : refs \in UNION { [1..k -> SegmentNames] : k \in 0..MaxSegments } }

\* A playlist with a line that new URL() rejects between two segments
OddRefs == << <<"a",".","t","s">>, HttpScheme, <<"b",".","t","s">> >>

\* A master playlist that names no stream
EmptyMaster == StreamInfMarker \o <<":", "B", "=", "1", NL>>

\* What response.text() can give for the manifest; for the playlist of the
\* master's first stream it gives one of Playlists
ManifestTexts == Playlists \cup { MasterText, EmptyMaster, PlaylistText(OddRefs) }

\* What a fetch() promise can settle with when its signal is not raised
FetchOutcomes == { [rejected |-> TRUE], [ok |-> FALSE], [ok |-> TRUE] }

Error(message) == [name |-> "Error", message |-> message]
\* The rejection of fetch(), text() and arrayBuffer() under a raised signal
AbortError     == [name |-> "AbortError", message |-> <<"signal is aborted without reason">>]
\* The rejection of fetch(), text() and arrayBuffer() on a network failure
NetworkError   == [name |-> "TypeError", message |-> <<"Failed to fetch">>]
ManifestError  == Error(<<"Failed to fetch manifest">>)
PlaylistError  == Error(<<"Failed to fetch media playlist">>)
NoStreamsError == Error(<<"No streams found in master playlist">>)
NoSegmentsError == Error(<<"No segments found in manifest">>)
AbortedError   == Error(<<"Download aborted">>)
SegmentError(i) == Error(<<"Failed to fetch segment ", i>>)

\* The run before the click.  pc is the await the function is suspended at;
\* ready holds a body that has been received completely and whose promise is
\* resolved by a task that is still queued; requested, inflight, responses
\* and fetched record the requests made, the responses and the segments read.
IdleDownload ==
    [pc |-> "idle", currentUrl |-> <<>>, segmentUrls |-> <<>>, i |-> 0,
     segments |-> <<>>, reports |-> <<>>, aborted |-> FALSE, ready |-> <<>>,
     requested |-> <<>>, inflight |-> {}, responses |-> <<>>, fetched |-> <<>>,
     text |-> <<>>, error |-> <<>>, blobUrls |-> <<>>, saved |-> <<>>]

FetchPcs == {"manifest", "stream", "segment"}
BodyPcs  == {"manifest.text", "stream.text", "segment.arrayBuffer"}

\* throw: the catch block logs and rethrows
Throw(d, err) == [d EXCEPT !.pc = "thrown", !.error = <<err>>, !.inflight = {}, !.ready = <<>>]

\* await fetch(url, { signal }): a raised signal rejects the call at once
Fetch(d, pc) == IF d.aborted THEN Throw(d, AbortError) ELSE [d EXCEPT !.pc = pc]

\* new URL(ref, base) throws for a reference with a scheme and no host
InvalidRef(ref) == ref = HttpScheme

ExtractSegmentsFromManifest(lines, currentUrl) ==
    LET Keep(line) == Trim(line) # <<>> /\ ~StartsWith(line, <<"#">>) /\ ~InvalidRef(Trim(line))
        kept == SelectSeq(lines, Keep)
    IN  [k \in 1..Len(kept) |-> ResolveUrl(Trim(kept[k]), UrlM3u8)]

\* Step 3: the non-empty lines that do not start with '#', resolved against
\* currentUrl; a line that new URL() rejects is skipped
RECURSIVE ExtractSegments(_, _)
ExtractSegments(lines, currentUrl) ==
    IF lines = <<>> THEN <<>>
    ELSE LET line == Head(lines)
             rest == ExtractSegments(Tail(lines), currentUrl)
         IN  IF Trim(line) # <<>> /\ ~StartsWith(line, <<"#">>) /\ ~InvalidRef(Trim(line))
             THEN <<ResolveUrl(Trim(line), currentUrl)>> \o rest
             ELSE rest

\* new Blob(segments): the bytes of the buffers, one after the other
RECURSIVE Blob(_)
Blob(segments) == IF segments = <<>> THEN <<>> ELSE Head(segments) \o Blob(Tail(segments))

UnshiftSegment(segments, buffer) == <<buffer>> \o segments

\* segments.push(buffer)
PushSegment(segments, buffer) == Append(segments, buffer)

ResponseAny(outcome) == TRUE

\* response.ok
ResponseOk(outcome) == outcome.ok

\* signal?.aborted at the top of the segment loop
SignalAborted(d) == d.aborted

RequestSegmentPair(d) ==
    [d EXCEPT !.pc = "segment",
              !.requested = @ \o <<d.i, d.i + 1>>,
              !.inflight = @ \cup {d.i, d.i + 1}]

\* fetch(segmentUrls[i], { signal })
RequestSegment(d) ==
    [d EXCEPT !.pc = "segment", !.requested = Append(@, d.i), !.inflight = @ \cup {d.i}]

\* The segment loop from its condition to the next await, and the code after
\* the loop: report, join, save, return true
SegmentLoop(d) ==
    LET total == Len(d.segmentUrls)
    IN  IF d.i < total
        THEN IF SignalAborted(d) THEN Throw(d, AbortedError)
             ELSE RequestSegment([d EXCEPT !.reports = Append(@, <<d.i, total>>)])
        ELSE LET blob == Blob(d.segments)
             IN  [d EXCEPT !.pc = "returned",
                           !.reports = Append(@, <<total, total>>),
                           !.blobUrls = Append(@, blob),
                           !.saved = <<blob>>]

FromPlaylistUnchecked(d, text) ==
    SegmentLoop([d EXCEPT !.segmentUrls = ExtractSegments(SplitLines(text), d.currentUrl),
                          !.i = 0, !.ready = <<>>])

\* Steps 3 and on, from the text of the segment-bearing playlist
FromPlaylist(d, text) ==
    LET urls == ExtractSegments(SplitLines(text), d.currentUrl)
    IN  IF urls = <<>> THEN Throw(d, NoSegmentsError)
        ELSE SegmentLoop([d EXCEPT !.segmentUrls = urls, !.i = 0, !.ready = <<>>])

\* Step 2, from the text of the manifest
FromManifest(d, text) ==
    IF Includes(text, StreamInfMarker)
    THEN LET stream == resolveFirstStreamUrl(d.currentUrl, text)
         IN  IF stream = <<>> THEN Throw(d, NoStreamsError)
             ELSE Fetch([d EXCEPT !.currentUrl = stream[1], !.ready = <<>>], "stream")
    ELSE FromPlaylist(d, text)

\* The variables a download leaves alone
NotDownload ==
    <<tabMediaCache, heap, now, closedTabs, scans, scanCount, classifier, page, notified, stale, panel>>

\* The click on the download button of a streaming item: the handler calls
\* downloadHlsStream, which runs to its first await.
StartDownload(url) ==
    /\ download.pc = "idle"
    /\ download' = Fetch([download EXCEPT !.currentUrl = url], "manifest")
    /\ UNCHANGED NotDownload

\* The click on the cancel button: controller.abort().  A request that is in
\* flight, or a body that is still being read, rejects with the AbortError and
\* the function throws it.  A body that has been received completely is not
\* touched: its promise resolves when the queued task runs.
Abort ==
    /\ download.pc \in FetchPcs \cup BodyPcs
    /\ ~download.aborted
    /\ LET d == [download EXCEPT !.aborted = TRUE]
       IN  download' = IF download.ready = <<>> THEN Throw(d, AbortError) ELSE d
    /\ UNCHANGED NotDownload

\* A fetch() promise settles: a network failure rejects it, a response
\* resolves it and the function checks response.ok.
FetchSettled(outcome) ==
    /\ download.pc \in FetchPcs
    /\ download' =
         IF "rejected" \in DOMAIN outcome THEN Throw(download, NetworkError)
         ELSE LET d == [download EXCEPT !.responses =
                           Append(@, [pc |-> download.pc, i |-> download.i,
                                      ok |-> outcome.ok])]
              IN  IF ~ResponseOk(outcome)
                  THEN Throw(d, CASE download.pc = "manifest" -> ManifestError
                                  [] download.pc = "stream" -> PlaylistError
                                  [] OTHER -> SegmentError(download.i))
                  ELSE [d EXCEPT !.pc = CASE download.pc = "manifest" -> "manifest.text"
                                           [] download.pc = "stream" -> "stream.text"
                                           [] OTHER -> "segment.arrayBuffer"]
    /\ UNCHANGED NotDownload

\* The bodies the server can send for the request the function waits on
Bodies(d) ==
    CASE d.pc = "manifest.text" -> ManifestTexts
      [] d.pc = "stream.text" -> Playlists
      [] OTHER -> { SegmentBody(d.segmentUrls[d.i + 1]) }

\* The last bytes of the body arrive.
BodyRead(body) ==
    /\ download.pc \in BodyPcs
    /\ download.ready = <<>>
    /\ download' = [download EXCEPT !.ready = <<body>>, !.inflight = @ \ {download.i}]
    /\ UNCHANGED NotDownload

\* The connection fails while the body is read: text() or arrayBuffer() rejects.
BodyFailed ==
    /\ download.pc \in BodyPcs
    /\ download.ready = <<>>
    /\ download' = Throw(download, NetworkError)
    /\ UNCHANGED NotDownload

\* The promise of text() or arrayBuffer() resolves and the function runs on to
\* its next await, its return or its throw.
BodyDelivered ==
    /\ download.pc \in BodyPcs
    /\ download.ready # <<>>
    /\ LET body == download.ready[1]
       IN  download' =
             CASE download.pc = "manifest.text" ->
                    FromManifest([download EXCEPT !.text = body], body)
               [] download.pc = "stream.text" ->
                    FromPlaylist([download EXCEPT !.text = body], body)
               [] OTHER ->
                    SegmentLoop([download EXCEPT
                                   !.segments = PushSegment(@, body),
                                   !.fetched = Append(@, download.i),
                                   !.i = @ + 1,
                                   !.ready = <<>>])
    /\ UNCHANGED NotDownload

\* catch (err) of the click handler: err.message === 'Download aborted' is a
\* cancellation, anything else a failure
CallerSees(d) ==
    IF d.pc = "returned" THEN "success"
    ELSE IF d.error[1].message = <<"Download aborted">> THEN "cancelled"
    ELSE "failed"

\* ------------------------------------------------------------------------
\* Calls of the classifier
\* ------------------------------------------------------------------------

\* RegExp objects keep lastIndex between calls; a pattern reads and writes it
\* only under the g or y flag.
PatternNames == {"VIDEO", "AUDIO", "STREAMING", "SUBTITLES"}

Extensions(name) ==
    CASE name = "VIDEO" -> VIDEO [] name = "AUDIO" -> AUDIO
      [] name = "STREAMING" -> STREAMING [] OTHER -> SUBTITLES

GlobalFlags == {"i", "g"}

\* The flags of the four patterns
PatternFlags == {"i"}

\* The index after the leftmost match of /\.(e1|e2|...)($|\?)/i in str that
\* starts at index `from` or later (indices count from 0), or <<>>
MatchEnd(exts, str, from) ==
    LET At(i) == { e \in exts :
                     /\ str[i] = "."
                     /\ i + Len(e) <= Len(str)
                     /\ \A k \in 1..Len(e) : Lower(str[i + k]) = e[k]
                     /\ \/ i + Len(e) = Len(str)
                        \/ str[i + Len(e) + 1] = "?" }
        hits == { i \in (from + 1)..Len(str) : At(i) # {} }
    IN  IF hits = {} THEN <<>>
        ELSE LET i == CHOOSE h \in hits : \A g \in hits : h <= g
                 e == CHOOSE x \in At(i) : TRUE
             IN  <<i + Len(e) + (IF i + Len(e) = Len(str) THEN 0 ELSE 1)>>

\* RegExp.prototype.test: the result and the pattern's lastIndex after it
RegExpTest(exts, str, lastIndex) ==
    LET global == "g" \in PatternFlags
        m == MatchEnd(exts, str, IF global THEN lastIndex ELSE 0)
    IN  [matched |-> m # <<>>,
         lastIndex |-> IF ~global THEN lastIndex ELSE IF m = <<>> THEN 0 ELSE m[1]]

\* JavaScript values handed to the classifier
String(s) == [t |-> "string", s |-> s]
Null      == [t |-> "null"]
Undefined == [t |-> "undefined"]
Number(n) == [t |-> "number", n |-> n]
Symbol    == [t |-> "symbol"]

\* ToString(argument): the characters, or <<>> for a Symbol, for which
\* the conversion throws a TypeError
ToStringValue(v) ==
    CASE v.t = "string" -> <<v.s>>
      [] v.t = "null" -> << <<"n","u","l","l">> >>
      [] v.t = "undefined" -> << <<"u","n","d","e","f","i","n","e","d">> >>
      [] v.t = "number" -> << <<Digits[v.n + 1]>> >>
      [] OTHER -> <<>>

Returned(value, lastIndex) == [threw |-> FALSE, value |-> value, lastIndex |-> lastIndex]
Threw(lastIndex) == [threw |-> TRUE, error |-> "TypeError", lastIndex |-> lastIndex]

\* The tests of getMediaType in the order of the source, with the kind each
\* returns
KindOrder ==
    << <<"VIDEO", "video">>, <<"AUDIO", "audio">>,
       <<"STREAMING", "streaming">>, <<"SUBTITLES", "subtitle">> >>

\* The tests from the k-th on: the first pattern that matches decides, and
\* every pattern tested leaves its lastIndex behind
RECURSIVE TestInOrder(_, _, _)
TestInOrder(k, str, lastIndex) ==
    IF k > Len(KindOrder) THEN Returned("unknown", lastIndex)
    ELSE LET name == KindOrder[k][1]
             t    == RegExpTest(Extensions(name), str, lastIndex[name])
             l    == [lastIndex EXCEPT ![name] = t.lastIndex]
         IN  IF t.matched THEN Returned(KindOrder[k][2], l)
             ELSE TestInOrder(k + 1, str, l)

\* getMediaType(v) on the pattern objects
getMediaTypeCall(v, lastIndex) ==
    IF ToStringValue(v) = <<>> THEN Threw(lastIndex)
    ELSE TestInOrder(1, ToStringValue(v)[1], lastIndex)

\* isMediaUrl(v)
isMediaUrlCall(v, lastIndex) ==
    LET r == getMediaTypeCall(v, lastIndex)
    IN  IF r.threw THEN r ELSE Returned(r.value # "unknown", r.lastIndex)

\* getHlsType(v): content.includes is read on the argument itself; null and
\* undefined have no properties, and a number or a Symbol has no includes
getHlsTypeCall(v, lastIndex) ==
    IF v.t # "string" THEN Threw(lastIndex)
    ELSE Returned(getHlsType(v.s), lastIndex)

\* The arguments of the model: URLs with an extension of each kind, with
\* extensions of two kinds, with letters in both cases, with and without a
\* query, and without a media extension
UrlAudioThenVideo == HostPrefix \o <<"a",".","m","p","3","?","u","=","b",".","m","p","4">>

ClassifierUrls ==
    { HostPrefix \o <<"a",".","m","p","4">>,
      HostPrefix \o <<"a",".","M","P","4","?","x","=","1">>,
      UrlAudioThenVideo,
      HostPrefix \o <<"a",".","v","t","t","?","u","=","b",".","m","3","u","8">>,
      HostPrefix \o <<"a",".","m","p","4","x">>,
      HostPrefix \o <<"a",".","m","p","4","/","b">>,
      HostPrefix \o <<"m","p","4">>,
      <<>>,
      HostPrefix \o <<"a",".","t","x","t","?",".">>,
      HostPrefix \o <<"a",".","O","g","g">>,
      HostPrefix \o <<"a",".","m","p","d","?">>,
      HostPrefix \o <<"a",".","s","s","a">> }

\* A manifest with the media marker in its first line and the master marker
\* after it
BothMarkers == MediaText \o MasterText

ClassifierInputs ==
    { String(u) : u \in ClassifierUrls \cup { MediaText, MasterText, HtmlText, BothMarkers,
                                              MasterText \o MediaText,
                                              [i \in DOMAIN MasterText |-> Lower(MasterText[i])] } }
    \cup { Null, Undefined, Number(5), Symbol }

\* The calls the model follows on one argument.
MaxCalls == 2

\* The classifier as the module is loaded, before any call
NoCalls == [input |-> Undefined, lastIndex |-> [n \in PatternNames |-> 0], calls |-> <<>>]

NotClassifier ==
    <<tabMediaCache, heap, now, closedTabs, scans, scanCount, download, page, notified, stale, panel>>

\* A caller applies one of the exported functions to the argument.
Call(fn) ==
    /\ Len(classifier.calls) < MaxCalls
    /\ LET r == CASE fn = "getMediaType" -> getMediaTypeCall(classifier.input, classifier.lastIndex)
                   [] fn = "isMediaUrl" -> isMediaUrlCall(classifier.input, classifier.lastIndex)
                   [] OTHER -> getHlsTypeCall(classifier.input, classifier.lastIndex)
       IN  classifier' = [classifier EXCEPT
                            !.lastIndex = r.lastIndex,
                            !.calls = Append(@, [fn |-> fn, result |-> [f \in DOMAIN r \ {"lastIndex"} |-> r[f]]])]
    /\ UNCHANGED NotClassifier

\* ------------------------------------------------------------------------
\* content.js: URLs as the document and the URL parser spell them
\* ------------------------------------------------------------------------

\* document.baseURI of the documents of the model
BaseUri == <<"h","t","t","p",":","/","/","h","/","d","/","p">>

Letters == DOMAIN UpperToLower \cup { UpperToLower[c] : c \in DOMAIN UpperToLower }

\* The scheme of a URL string: the letters, digits, plus, minus and dot that
\* stand before its first colon, in lower case; <<>> when it starts with none
UrlScheme(input) ==
    LET n == Len(PrefixIn(input, Letters \cup DigitChars \cup {"+", "-", "."}))
    IN  IF n >= 1 /\ n < Len(input) /\ input[n + 1] = ":" /\ input[1] \in Letters
        THEN [k \in 1..n |-> Lower(input[k])]
        ELSE <<>>

SpecialSchemes == { <<"h","t","t","p">>, <<"h","t","t","p","s">> }

ForbiddenHostChars == {" ", "<", ">", "[", "]", "^", "|"}

\* The URL parser on what follows the colon of a special scheme: the slashes
\* are skipped, the host is put in lower case, an empty path becomes "/".
\* <<href>>, or <<>> when the host is empty or has a forbidden character (the
\* constructor throws a TypeError).
SpecialUrl(scheme, rest) ==
    LET tail == SubSeq(rest, Len(PrefixIn(rest, {"/", "\\"})) + 1, Len(rest))
        host == PrefixIn(tail, { tail[i] : i \in 1..Len(tail) } \ {"/", "\\", "?", "#"})
        path == SubSeq(tail, Len(host) + 1, Len(tail))
    IN  IF host = <<>> \/ \E i \in 1..Len(host) : host[i] \in ForbiddenHostChars THEN <<>>
        ELSE << scheme \o <<":", "/", "/">> \o [i \in 1..Len(host) |-> Lower(host[i])]
                \o (IF path = <<>> \/ path[1] # "/" THEN <<"/">> ELSE <<>>) \o path >>

\* new URL(url, base).href for an absolute http base: leading and trailing
\* white space is dropped; a string with a scheme is parsed on its own, one
\* with a scheme that is not special keeps what follows the colon as it is; a
\* string with no scheme is resolved against base.  Dot segments and percent
\* encoding are left as they are (the inputs have none).
NewUrl(url, base) ==
    LET input == Trim(url)
    IN  IF input = <<>> THEN <<base>>
        ELSE IF UrlScheme(input) \in SpecialSchemes
        THEN SpecialUrl(UrlScheme(input), SubSeq(input, Len(UrlScheme(input)) + 2, Len(input)))
        ELSE IF UrlScheme(input) # <<>>
        THEN << UrlScheme(input) \o SubSeq(input, Len(UrlScheme(input)) + 1, Len(input)) >>
        ELSE IF StartsWith(input, <<"/", "/">>) THEN SpecialUrl(UrlScheme(base), input)
        ELSE <<ResolveUrl(input, base)>>

\* mediaEl.src, source.src, track.src and link.href: the attribute's value
\* resolved against the document, the value itself when it cannot be parsed,
\* the empty string for an element without the attribute (<<>> stands for
\* both)
Reflect(attribute) ==
    IF attribute = <<>> THEN <<>>
    ELSE IF NewUrl(attribute, BaseUri) = <<>> THEN attribute
    ELSE NewUrl(attribute, BaseUri)[1]

\* content.js getMediaType: the kind, or null (the empty sequence)
ContentPatterns ==
    [VIDEO |-> { <<"m","p","4">>, <<"w","e","b","m">>, <<"o","g","v">>, <<"m","o","v">>,
                 <<"a","v","i">>, <<"m","k","v">>, <<"f","l","v">>, <<"m","4","v">> },
     AUDIO |-> { <<"m","p","3">>, <<"w","a","v">>, <<"m","4","a">>, <<"a","a","c">>,
                 <<"o","g","g">>, <<"o","p","u","s">>, <<"f","l","a","c">>, <<"w","m","a">> },
     STREAMING |-> { <<"m","3","u","8">>, <<"m","p","d">> },
     SUBTITLES |-> { <<"v","t","t">>, <<"s","r","t">>, <<"a","s","s">>, <<"s","s","a">> }]

\* The tests of the content script made with the subtitle pattern first
getMediaTypeSubtitlesFirst(url) ==
    IF PatternTest(ContentPatterns.SUBTITLES, url) THEN <<"subtitle">>
    ELSE IF PatternTest(ContentPatterns.VIDEO, url) THEN <<"video">>
    ELSE IF PatternTest(ContentPatterns.AUDIO, url) THEN <<"audio">>
    ELSE IF PatternTest(ContentPatterns.STREAMING, url) THEN <<"streaming">>
    ELSE <<>>

getMediaTypeOrNull(url) ==
    IF PatternTest(ContentPatterns.VIDEO, url) THEN <<"video">>
    ELSE IF PatternTest(ContentPatterns.AUDIO, url) THEN <<"audio">>
    ELSE IF PatternTest(ContentPatterns.STREAMING, url) THEN <<"streaming">>
    ELSE IF PatternTest(ContentPatterns.SUBTITLES, url) THEN <<"subtitle">>
    ELSE <<>>

\* ------------------------------------------------------------------------
\* content.js: the matches of urlRegex in a script's text
\* ------------------------------------------------------------------------

UrlStarts == { <<"h","t","t","p",":","/","/">>, <<"h","t","t","p","s",":","/","/">>, <<"w","w","w",".">> }

ScriptExtensions ==
    { <<"m","p","4">>, <<"w","e","b","m">>, <<"m","3","u","8">>, <<"m","p","d">>, <<"m","p","3">>, <<"w","a","v">>, <<"m","4","a">>, <<"v","t","t">>, <<"s","r","t">> }

\* [^\s"']
RunChar(c) == c \notin WhiteSpace \cup {"\"", "'"}

\* [\w=&.]
QueryChars == Letters \cup DigitChars \cup {"_", "=", "&", "."}

\* p stands in str at index i, letters compared without case (the i flag)
FoldedAt(str, i, p) ==
    /\ i + Len(p) - 1 <= Len(str)
    /\ \A k \in 1..Len(p) : Lower(str[i + k - 1]) = p[k]

\* The index of the last character of [^\s"']+ taken greedily from index a
RunEnd(str, a) ==
    CHOOSE k \in (a - 1)..Len(str) :
        /\ \A j \in a..k : RunChar(str[j])
        /\ k < Len(str) => ~RunChar(str[k + 1])

\* The dots after index a, up to the end of the run, that an extension follows
ExtensionDots(str, a) ==
    { d \in (a + 1)..RunEnd(str, a) :
        str[d] = "." /\ \E e \in ScriptExtensions : FoldedAt(str, d + 1, e) }

\* (?:\?[\w=&.]+)? after index end: the number of characters it takes
QueryLength(str, end) ==
    IF end + 2 <= Len(str) /\ str[end + 1] = "?" /\ str[end + 2] \in QueryChars
    THEN 1 + Len(PrefixIn(SubSeq(str, end + 2, Len(str)), QueryChars))
    ELSE 0

\* The index of the last character of the match of urlRegex that starts at
\* index i, or 0 when none starts there: the run gives back characters until
\* a dot and an extension follow, so the last such dot of the run is taken.
MatchFrom(str, i) ==
    LET starts == { p \in UrlStarts : FoldedAt(str, i, p) }
        a == i + Len(CHOOSE p \in starts : TRUE)
        d == CHOOSE x \in ExtensionDots(str, a) : \A y \in ExtensionDots(str, a) : y <= x
    IN  IF starts = {} THEN 0
        ELSE IF ExtensionDots(str, a) = {} THEN 0
        ELSE LET end == d + Len(CHOOSE e \in ScriptExtensions : FoldedAt(str, d + 1, e))
             IN  end + QueryLength(str, end)

\* content.match(urlRegex) under the g flag: the matches from left to right,
\* each search starting after the match before it
RECURSIVE UrlMatches(_, _)
UrlMatches(str, from) ==
    LET hits == { i \in from..Len(str) : MatchFrom(str, i) > 0 }
        i == CHOOSE h \in hits : \A g \in hits : h <= g
    IN  IF hits = {} THEN <<>>
        ELSE <<SubSeq(str, i, MatchFrom(str, i))>> \o UrlMatches(str, MatchFrom(str, i) + 1)

\* ------------------------------------------------------------------------
\* content.js: the strings of a JSON script
\* ------------------------------------------------------------------------

\* The index of the k-th quotation mark of text
QuoteAt(text, k) ==
    CHOOSE i \in 1..Len(text) :
        /\ text[i] = "\""
        /\ Cardinality({ j \in 1..i : text[j] = "\"" }) = k

\* Index i of text stands outside every string literal
Outside(text, i) == Cardinality({ j \in 1..i : text[j] = "\"" }) % 2 = 0 /\ text[i] # "\""

\* The arrays that are open at index i
DepthAt(text, i) ==
    Cardinality({ j \in 1..i : Outside(text, j) /\ text[j] = "[" })
    - Cardinality({ j \in 1..i : Outside(text, j) /\ text[j] = "]" })

\* JSON.parse on a text of strings and arrays of strings, with no escapes:
\* << the strings in the order of the text, each with the number of arrays
\* around it >>, or <<>> when the text is not such a value (JSON.parse throws)
JSONParse(text) ==
    LET quotes == Cardinality({ j \in 1..Len(text) : text[j] = "\"" })
        wellFormed ==
            /\ text # <<>>
            /\ quotes % 2 = 0
            /\ \A i \in 1..Len(text) :
                  Outside(text, i) => text[i] \in WhiteSpace \cup {"[", "]", ","}
            /\ \A i \in 1..Len(text) : DepthAt(text, i) >= 0
            /\ DepthAt(text, Len(text)) = 0
            /\ text[1] = "[" \/ quotes = 2
    IN  IF ~wellFormed THEN <<>>
        ELSE << [k \in 1..(quotes \div 2) |->
                   [value |-> SubSeq(text, QuoteAt(text, 2 * k - 1) + 1,
                                     QuoteAt(text, 2 * k) - 1),
                    depth |-> DepthAt(text, QuoteAt(text, 2 * k - 1))]] >>
\* ------------------------------------------------------------------------
\* content.js: extractMediaFromDOM
\* ------------------------------------------------------------------------

\* Line 72: the candidates addUniqueMedia returns on at once
RejectedPrefixes == { <<"j","a","v","a","s","c","r","i","p","t",":">>, <<"d","a","t","a",":">>, <<"b","l","o","b",":">> }

Rejected(url) == url = <<>> \/ \E p \in RejectedPrefixes : StartsWith(url, p)

\* addUniqueMedia(url, type, element) without the test of seenUrls
addUniqueMediaUnseen(acc, c) ==
    IF Rejected(c.url) \/ NewUrl(c.url, BaseUri) = <<>> THEN acc
    ELSE LET absoluteUrl == NewUrl(c.url, BaseUri)[1]
             detectedType == IF c.type # <<>> THEN c.type
                             ELSE getMediaTypeOrNull(absoluteUrl)
         IN  IF detectedType = <<>> THEN acc
             ELSE [seenUrls |-> acc.seenUrls \cup {absoluteUrl},
                   results |-> Append(acc.results,
                       [url |-> absoluteUrl, type |-> detectedType[1], source |-> "dom",
                        tagName |-> c.tagName])]

\* addUniqueMedia(url, type, element); acc holds seenUrls and results, and the
\* candidate c the arguments, with the element's tag name.  A candidate the URL
\* constructor throws on is dropped by the catch block.
addUniqueMedia(acc, c) ==
    IF Rejected(c.url) \/ NewUrl(c.url, BaseUri) = <<>> THEN acc
    ELSE LET absoluteUrl == NewUrl(c.url, BaseUri)[1]
             detectedType == IF c.type # <<>> THEN c.type
                             ELSE getMediaTypeOrNull(absoluteUrl)
         IN  IF absoluteUrl \in acc.seenUrls \/ detectedType = <<>> THEN acc
             ELSE [seenUrls |-> acc.seenUrls \cup {absoluteUrl},
                   results |-> Append(acc.results,
                       [url |-> absoluteUrl, type |-> detectedType[1], source |-> "dom",
                        tagName |-> c.tagName])]

RECURSIVE Concat(_)
Concat(seqs) == IF seqs = <<>> THEN <<>> ELSE Head(seqs) \o Concat(Tail(seqs))

\* The calls of addUniqueMedia for one video or audio element: its src, the
\* src of its source children, the src of its track children
MediaCandidates(mediaEl) ==
    << [url |-> Reflect(mediaEl.src), type |-> <<mediaEl.tagName>>,
        tagName |-> mediaEl.tagName] >>
    \o [i \in DOMAIN mediaEl.sources |->
          [url |-> Reflect(mediaEl.sources[i]), type |-> <<mediaEl.tagName>>,
           tagName |-> "source"]]
    \o [i \in DOMAIN mediaEl.tracks |->
          [url |-> Reflect(mediaEl.tracks[i]), type |-> <<"subtitle">>, tagName |-> "track"]]

\* 'application/json' and 'application/ld+json' are left out of the pass over
\* the scripts' text; script[type*="json"] selects the JSON scripts
JsonTypes == {"application/json", "application/ld+json", "text/json"}

SkippedTypes == {"application/json", "application/ld+json"}

ScriptCandidates(script) ==
    IF script.textContent = <<>> \/ script.type \in SkippedTypes THEN <<>>
    ELSE LET matches == UrlMatches(script.textContent, 1)
         IN  [i \in DOMAIN matches |-> [url |-> matches[i], type |-> <<>>, tagName |-> "script"]]

\* findUrls(data): the strings of at most ten arrays' depth that getMediaType
\* gives a kind
MaxDepth == 10

JsonCandidates(script) ==
    IF script.type \notin JsonTypes \/ JSONParse(script.textContent) = <<>> THEN <<>>
    ELSE LET found == SelectSeq(JSONParse(script.textContent)[1],
                                LAMBDA v : v.depth <= MaxDepth
                                           /\ getMediaTypeOrNull(v.value) # <<>>)
         IN  [i \in DOMAIN found |->
                [url |-> found[i].value, type |-> <<>>, tagName |-> "json-data"]]

\* The calls of addUniqueMedia in the order extractMediaFromDOM makes them
Candidates(document) ==
    Concat([i \in DOMAIN document.media |-> MediaCandidates(document.media[i])])
    \o [i \in DOMAIN document.links |->
          [url |-> Reflect(document.links[i]), type |-> <<>>, tagName |-> "a"]]
    \o Concat([i \in DOMAIN document.scripts |-> ScriptCandidates(document.scripts[i])])
    \o Concat([i \in DOMAIN document.scripts |-> JsonCandidates(document.scripts[i])])

RECURSIVE ForEachCandidate(_, _)
ForEachCandidate(acc, candidates) ==
    IF candidates = <<>> THEN acc
    ELSE ForEachCandidate(addUniqueMedia(acc, Head(candidates)), Tail(candidates))

extractMediaFromDOM(document) ==
    ForEachCandidate([seenUrls |-> {}, results |-> <<>>], Candidates(document)).results

\* ------------------------------------------------------------------------
\* The documents of the model
\* ------------------------------------------------------------------------

MediaElement(tagName, src, sources, tracks) ==
    [tagName |-> tagName, src |-> src, sources |-> sources, tracks |-> tracks]

Script(type, textContent) == [type |-> type, textContent |-> textContent]

\* A string that names a blob: URL with a space before it
SpacedBlob == <<" ","b","l","o","b",":","h","t","t","p",":","/","/","h","/","z",".","m","p","4">>

\* A string the URL constructor throws on
Unresolvable == <<"h","t","t","p",":","/","/","[","/","a",".","m","p","4">>

MediaPool ==
    { <<>>,
      << MediaElement("video", <<"a",".","m","p","4">>, << <<"h","t","t","p",":","/","/","h","/","d","/","a",".","m","p","4">>, <<"b",".","w","e","b","m">> >>, << <<"e",".","v","t","t">> >>) >>,
      << MediaElement("audio", <<>>, << <<"x">> >>, <<>>),
         MediaElement("video", <<"b","l","o","b",":","h","t","t","p",":","/","/","h","/","1">>, << <<" ","D","A","T","A",":","v","i","d","e","o","/","m","p","4",",","x",".","m","p","4">> >>,
                      << Unresolvable >>) >>,
      << MediaElement("video", <<"/","c",".","m","3","u","8">>, <<>>, << <<"H","T","T","P",":","/","/","H","/","d","/","e",".","v","t","t">> >>) >> }

LinkPool ==
    { <<>>,
      << <<"a",".","m","p","4">>, <<"/","c",".","m","3","u","8">>, <<"p","a","g","e","2">>, <<"J","a","v","a","S","c","r","i","p","t",":","v","o","i","d","(","0",")","/","/","x",".","m","p","4">> >>,
      << <<"H","T","T","P",":","/","/","H","/","d","/","a",".","m","p","4">>, <<"b","l","o","b",":","h","t","t","p",":","/","/","h","/","z",".","m","p","4">>, Unresolvable, <<"/","/","k","/","v",".","w","e","b","m","?","t","=","1">> >>,
      << <<"s",".","O","G","G">>, <<"t",".","v","t","t","?","u",".","m","p","4">>, <<"u",".","m","p","d">>, <<"w",".","m","p","4",".","a","s","s">>, <<"x",".","m","k","v","#","t">>, <<"b","l","o","b",":","h","t","t","p",":","/","/","h","/","y",".","m","p","4">> >> }

ScriptPool ==
    { <<>>,
      << Script("", <<"v","a","r"," ","u"," ","="," ","\"","h","t","t","p",":","/","/","h","/","d","/","a",".","m","p","4","?","x","=","1","#","f","\"",";"," ","v","a","r"," ","w"," ","="," ","'","w","w","w",".","k",".","c","o","m","/","v",".","w","e","b","m","'",";">>) >>,
      << Script("application/json",
                <<"[","\"","h","t","t","p",":","/","/","h","/","d","/","a",".","m","p","4","\"",",","\"","c",".","m","3","u","8","\"",",","[","\"","J","a","v","a","S","c","r","i","p","t",":","x",".","m","p","4","\"","]",",","\"","p","a","g","e","2","\"","]">>) >>,
      << Script("application/ld+json", <<"[","\"">> \o SpacedBlob \o <<"\"","]">>),
         Script("text/json", <<"[","\"","h","t","t","p","s",":","/","/","h","/","s",".","s","r","t","\"",",","\"">> \o Unresolvable \o <<"\"","]">>) >>,
      << Script("text/javascript", <<"x"," ","="," ","\"">> \o Unresolvable \o <<"\""," ","+"," ","\"","H","T","T","P","S",":","/","/","h","/","d","/","A",".","M","P","3",".","b","a","k","\"",";">>),
         Script("application/ld+json", <<"{">>),
         Script("application/json", <<"[","[","[","[","[","[","[","[","[","[","[","\"","h","t","t","p",":","/","/","h","/","d","e","e","p",".","m","p","4","\"","]","]","]","]","]","]","]","]","]","]",",","\"","h","t","t","p",":","/","/","h","/","d","/","b",".","w","e","b","m","\"","]">>) >> }

Documents == [media : MediaPool, links : LinkPool, scripts : ScriptPool]

\* ------------------------------------------------------------------------
\* content.js: injection and the message listener
\* ------------------------------------------------------------------------

\* The runs of executeScript and the extraction requests the model follows
MaxInjections == 2

MaxRequests == 2

\* A tab's page: its document, the flag on its window, the listeners
\* registered on chrome.runtime.onMessage in it, the runs of content.js so
\* far, and for every extract_dom_media message the calls of sendResponse.
NoPage == [document |-> [media |-> <<>>, links |-> <<>>, scripts |-> <<>>],
           mediaVueInjected |-> FALSE, listeners |-> 0, injections |-> 0, requests |-> <<>>]

NotPage ==
    <<tabMediaCache, heap, now, closedTabs, scans, scanCount, download, classifier, notified,
      stale, panel>>

NeverInjected(window) == FALSE

\* if (window.mediaVueInjected) return
AlreadyInjected(window) == window.mediaVueInjected

\* chrome.scripting.executeScript runs content.js in the document
Inject ==
    /\ page.injections < MaxInjections
    /\ page' = IF AlreadyInjected(page)
               THEN [page EXCEPT !.injections = @ + 1]
               ELSE [page EXCEPT !.injections = @ + 1, !.mediaVueInjected = TRUE,
                                 !.listeners = @ + 1]
    /\ UNCHANGED NotPage

\* The message { action: 'extract_dom_media' } reaches the tab: every
\* registered listener runs extractMediaFromDOM and calls sendResponse.
ExtractDomMedia ==
    /\ Len(page.requests) < MaxRequests
    /\ page' = [page EXCEPT !.requests = Append(@,
                  [injections |-> page.injections,
                   responses |-> [k \in 1..page.listeners |->
                                    extractMediaFromDOM(page.document)]])]
    /\ UNCHANGED NotPage

\* ------------------------------------------------------------------------
\* The side panel
\* ------------------------------------------------------------------------

\* The most performScan calls and Download clicks of a panel session
MaxPanelScans == 3
MaxClicks == 2

\* The panel before it is opened.  activeTab is the active tab of the window;
\* calls are the runs of performScan (pc: the await it is suspended at, tabId:
\* the tab it asked the service worker to scan); currentResults is the list of
\* the last response that had one, received by the call currentOf; rendered
\* are the items that have buttons in resultsList; activeDownloads maps a URL
\* to its controller; runs are the calls of downloadHlsStream, each with the
\* controller created for it.
NoPanel ==
    [activeTab |-> 1, calls |-> <<>>, currentResults |-> <<>>, currentOf |-> 0,
     rendered |-> <<>>, activeDownloads |-> <<>>, runs |-> <<>>]

\* DOMContentLoaded: the handler registers the listeners and calls
\* performScan(), which runs to await chrome.tabs.query
OpenedPanel == [NoPanel EXCEPT !.calls = <<[pc |-> "query", tabId |-> 0]>>]

NotPanel ==
    <<tabMediaCache, heap, now, closedTabs, scans, scanCount, download, classifier, page,
      notified, stale>>

\* performScan() up to its first await
performScan(p) == [p EXCEPT !.calls = Append(@, [pc |-> "query", tabId |-> 0])]

\* chrome.tabs.onActivated: the user activates another tab of the window
TabActivated(t) ==
    /\ Len(panel.calls) < MaxPanelScans
    /\ t # panel.activeTab
    /\ panel' = performScan([panel EXCEPT !.activeTab = t])
    /\ UNCHANGED NotPanel

\* chrome.tabs.onUpdated with changeInfo.status === 'complete' for tab t
TabUpdated(t) ==
    /\ Len(panel.calls) < MaxPanelScans
    /\ panel' = IF t = panel.activeTab THEN performScan(panel) ELSE panel
    /\ UNCHANGED NotPanel

\* chrome.runtime.onMessage with action 'new_media_detected'
NewMediaMessage ==
    /\ Len(panel.calls) < MaxPanelScans
    /\ panel' = performScan(panel)
    /\ UNCHANGED NotPanel

\* What chrome.tabs.query({ active, currentWindow }) resolves with: no tab,
\* or the active tab, which shows a web page or a protected page
QueryResults(p) ==
    { <<>>, <<[id |-> p.activeTab, url |-> HttpPage]>>,
      <<[id |-> p.activeTab, url |-> <<"c","h","r","o","m","e",":","/","/","x">>]>> }

\* await chrome.tabs.query settles for the oldest call that waits for it; the
\* call returns, shows the protected-page message, or sends scan_page
QuerySettled(k, tabs) ==
    /\ k \in DOMAIN panel.calls
    /\ panel.calls[k].pc = "query"
    /\ \A j \in 1..(k - 1) : panel.calls[j].pc # "query"
    /\ panel' =
         IF tabs = <<>> THEN [panel EXCEPT !.calls[k].pc = "done"]
         ELSE IF isProtectedUrl(tabs[1])
         THEN [panel EXCEPT !.calls[k].pc = "done", !.rendered = <<>>]
         ELSE [panel EXCEPT !.calls[k] = [pc |-> "scan_page", tabId |-> tabs[1].id]]
    /\ UNCHANGED NotPanel

\* What the service worker answers a scan of tab t with: nothing (lastError),
\* an error, or the list of the tab
PanelResults(t) == IF t = 1 THEN <<DomLink>> ELSE <<DomTrack>>

PanelResponses(t) == { <<>>, [error |-> ScanFailedError], [results |-> PanelResults(t)] }

\* The callback of chrome.runtime.sendMessage({ action: 'scan_page' }) of call
\* k: showError, or currentResults = results and renderResults
ScanResponse(k, response) ==
    /\ k \in DOMAIN panel.calls
    /\ panel.calls[k].pc = "scan_page"
    /\ panel' =
         IF response = <<>> \/ "error" \in DOMAIN response
         THEN [panel EXCEPT !.calls[k].pc = "done", !.rendered = <<>>]
         ELSE [panel EXCEPT !.calls[k].pc = "done",
                            !.currentResults = response.results,
                            !.currentOf = k,
                            !.rendered = response.results]
    /\ UNCHANGED NotPanel

\* activeDownloads.set(url, { controller, ... }) / .delete(url)
MapSet(map, key, value) == [x \in DOMAIN map \cup {key} |-> IF x = key THEN value ELSE map[x]]
MapDelete(map, key) == [x \in DOMAIN map \ {key} |-> map[x]]

\* The click on the download button of rendered item i, a playlist shorter
\* than two hours: a new controller, the entry, and downloadHlsStream up to
\* its first await
ClickDownload(i) ==
    /\ i \in DOMAIN panel.rendered
    /\ Len(panel.runs) < MaxClicks
    /\ LET item == panel.rendered[i]
           controller == Len(panel.runs) + 1
       IN  /\ item.type = "streaming" /\ Includes(item.url, M3u8Needle)
           /\ panel' = [panel EXCEPT
                 !.activeDownloads = MapSet(@, item.url, controller),
                 !.runs = Append(@, [url |-> item.url, aborted |-> FALSE, pc |-> "running"])]
    /\ UNCHANGED NotPanel

\* The click on the cancel button of rendered item i: the controller of the
\* URL's entry, if there is one, is aborted
ClickCancel(i) ==
    /\ i \in DOMAIN panel.rendered
    /\ LET url == panel.rendered[i].url
       IN  panel' = IF url \in DOMAIN panel.activeDownloads
                    THEN [panel EXCEPT !.runs[panel.activeDownloads[url]].aborted = TRUE]
                    ELSE panel
    /\ UNCHANGED NotPanel

\* downloadHlsStream of run r returns or throws: the finally block deletes
\* the entry of the run's URL
RunEnds(r) ==
    /\ r \in DOMAIN panel.runs
    /\ panel.runs[r].pc = "running"
    /\ panel' = [panel EXCEPT !.runs[r].pc = "ended",
                              !.activeDownloads = MapDelete(@, panel.runs[r].url)]
    /\ UNCHANGED NotPanel

\* ------------------------------------------------------------------------
\* The service worker from its start
\* ------------------------------------------------------------------------

Init ==
    /\ tabMediaCache = <<>>
    /\ heap = <<>>
    /\ now = 0
    /\ closedTabs = {}
    /\ scans = [s \in ScanIds |-> IdleScan]
    /\ scanCount = 0
    /\ download = IdleDownload
    /\ classifier = NoCalls
    /\ page = NoPage
    /\ stale = NoReload
    /\ panel = NoPanel
    /\ notified = <<>>

Next ==
    \/ \E t \in RequestTabIds : \E u \in ScanUrls(t) : OnBeforeRequest(t, u)
    \/ \E t \in TabIds : OnRemoved(t)
    \/ \E s \in ScanIds : \E t \in TabIds \cup {0} : ScanPage(s, t)
    \/ \E s \in ScanIds : \E r \in TabResults(scans[s].tabId) : TabsGetCallback(s, r)
    \/ \E s \in ScanIds : \E f \in BOOLEAN : ExecuteScriptSettled(s, f)
    \/ \E s \in ScanIds : \E a \in DomAnswers : SendMessageCallback(s, a)
    \/ \E s \in ScanIds : \E i \in 1..3 : \E o \in HeadOutcomes : HeadSettled(s, i, o)
    \/ \E s \in ScanIds : \E i \in 1..3 : \E o \in GetOutcomes : GetSettled(s, i, o)
    \/ \E s \in ScanIds : \E i \in 1..3 : \E o \in GetOutcomes : Get2Settled(s, i, o)
    \/ \E s \in ScanIds : Respond(s)

Spec == Init /\ [][Next]_vars

\* The scheduling the code can rely on.  The host delivers the callbacks of
\* tabs.get, executeScript and tabs.sendMessage; fetchFileSize arms a 2 s
\* timer that aborts its HEAD request, so every HEAD request settles; the
\* then() of Promise.all runs once every item function has returned.
\* fetchHlsContent calls fetch(url) with no signal and no timer: nothing makes
\* a manifest request settle.
Fairness ==
    /\ \A s \in ScanIds :
          /\ WF_vars(\E r \in TabResults(scans[s].tabId) : TabsGetCallback(s, r))
          /\ WF_vars(\E f \in BOOLEAN : ExecuteScriptSettled(s, f))
          /\ WF_vars(\E a \in DomAnswers : SendMessageCallback(s, a))
          /\ WF_vars(Respond(s))
          /\ \A i \in 1..3 : WF_vars(\E o \in HeadOutcomes : HeadSettled(s, i, o))

SpecLive == Init /\ [][Next]_vars /\ Fairness

\* ------------------------------------------------------------------------
\* The store near its capacity
\* ------------------------------------------------------------------------

\* The cache of tab 1 after k requests for k distinct video URLs.
Prefilled(k) == [i \in 1..k |-> <<"net", 1, i>>]

PrefilledHeap(k) == [id \in Range(Prefilled(k)) |-> NetworkItem(Filler(id[3]), 0)]

\* The requests of the pages: the page of tab 2 loads a single media file.
StoreUrls(t) == IF t = 2 THEN { UrlMp4 } ELSE { UrlMp3, UrlM3u8, UrlPage, UrlBlob, Filler(1) }

InitStore ==
    /\ \E k \in {0} \cup ((MaxEntries - Slack)..MaxEntries) :
          /\ tabMediaCache = IF k = 0 THEN <<>> ELSE (1 :> Prefilled(k))
          /\ heap = PrefilledHeap(k)
    /\ now = 0
    /\ closedTabs = {}
    /\ scans = [s \in ScanIds |-> IdleScan]
    /\ scanCount = 0
    /\ download = IdleDownload
    /\ classifier = NoCalls
    /\ page = NoPage
    /\ stale = NoReload
    /\ panel = NoPanel
    /\ notified = <<>>

NextStore ==
    \/ \E t \in RequestTabIds : \E u \in StoreUrls(t) : OnBeforeRequest(t, u)
    \/ \E t \in TabIds : OnRemoved(t)
    \/ Tick

SpecStore == InitStore /\ [][NextStore]_vars

\* ------------------------------------------------------------------------
\* A reconstruction in the side panel
\* ------------------------------------------------------------------------

InitDownload ==
    /\ tabMediaCache = <<>>
    /\ heap = <<>>
    /\ now = 0
    /\ closedTabs = {}
    /\ scans = [s \in ScanIds |-> IdleScan]
    /\ scanCount = 0
    /\ download = IdleDownload
    /\ classifier = NoCalls
    /\ page = NoPage
    /\ stale = NoReload
    /\ panel = NoPanel
    /\ notified = <<>>

NextDownload ==
    \/ StartDownload(UrlM3u8)
    \/ Abort
    \/ \E o \in FetchOutcomes : FetchSettled(o)
    \/ download.pc \in BodyPcs /\ \E b \in Bodies(download) : BodyRead(b)
    \/ BodyFailed
    \/ BodyDelivered

SpecDownload == InitDownload /\ [][NextDownload]_vars

\* ------------------------------------------------------------------------
\* Downloads from servers whose manifests are not all well formed
\* ------------------------------------------------------------------------

\* A master playlist whose first stream is in a directory below its own
DeepMaster ==
    StreamInfMarker \o <<":", "B", "=", "1", NL>> \o <<"v","/","l","o","w",".","m","3","u","8">> \o <<NL>>

TwoRefs == << <<"b",".","t","s">>, <<"a",".","t","s">> >>

\* What the servers answer with: for the manifest, master playlists (one that
\* names no stream), media playlists (with a line that new URL() rejects,
\* with no other line, without segments) and a page; for the playlist of the first stream, media
\* playlists and a master playlist
LooseBodies(d) ==
    CASE d.pc = "manifest.text" ->
            { MasterText, DeepMaster, EmptyMaster, HtmlText,
              PlaylistText(TwoRefs), PlaylistText(OddRefs), PlaylistText(<<>>),
              PlaylistText(<<HttpScheme>>) }
      [] d.pc = "stream.text" ->
            { PlaylistText(TwoRefs), PlaylistText(OddRefs), PlaylistText(<<>>), MasterText }
      [] OTHER -> { SegmentBody(d.segmentUrls[d.i + 1]) }

NextManifests ==
    \/ StartDownload(UrlM3u8)
    \/ Abort
    \/ \E o \in FetchOutcomes : FetchSettled(o)
    \/ download.pc \in BodyPcs /\ \E b \in LooseBodies(download) : BodyRead(b)
    \/ BodyFailed
    \/ BodyDelivered

SpecManifests == InitDownload /\ [][NextManifests]_vars

\* ------------------------------------------------------------------------
\* The classifier on one argument
\* ------------------------------------------------------------------------

InitClassify ==
    /\ tabMediaCache = <<>>
    /\ heap = <<>>
    /\ now = 0
    /\ closedTabs = {}
    /\ scans = [s \in ScanIds |-> IdleScan]
    /\ scanCount = 0
    /\ download = IdleDownload
    /\ \E v \in ClassifierInputs : classifier = [NoCalls EXCEPT !.input = v]
    /\ page = NoPage
    /\ stale = NoReload
    /\ panel = NoPanel
    /\ notified = <<>>

NextClassify ==
    \/ Call("getMediaType")
    \/ Call("isMediaUrl")
    \/ Call("getHlsType")

SpecClassify == InitClassify /\ [][NextClassify]_vars

\* ------------------------------------------------------------------------
\* Scans of pages that link playlists
\* ------------------------------------------------------------------------

\* A link to a playlist, as the content script reports it
PlaylistLink(url) == [url |-> url, type |-> "streaming", source |-> "dom", tagName |-> "a"]

\* A playlist in a directory, with a query and a fragment that have slashes
DomLevel == PlaylistLink(HostPrefix \o <<"v","/","a","b","c","/","l","e","v","e","l","_","0",".","m","3","u","8","?","t","=","/","x","/","1","#","f","/","g">>)

\* Lists with one link: to a playlist in a directory, to the same with a query
\* and a fragment, to a playlist at the root with a fragment
LinkAnswers ==
    { << <<PlaylistLink(HostPrefix \o <<"v","/","a","b","c","/","l","e","v","e","l","_","0",".","m","3","u","8">>)>> >>,
      << <<DomLevel>> >>,
      << <<PlaylistLink(HostPrefix \o <<"c",".","m","3","u","8","#","f","/","g">>)>> >> }

\* A list of segments without the #EXT-X-TARGETDURATION tag
SegmentsOnlyText == ExtInfPrefix \o <<"5",".","0",",",NL,"s","0",".","t","s",NL>>

PlaylistOutcomes == GetOutcomes \cup { [ok |-> TRUE, text |-> SegmentsOnlyText] }

NextPlaylists ==
    \/ \E s \in ScanIds : \E t \in TabIds : ScanPage(s, t)
    \/ \E s \in ScanIds : \E r \in TabResults(scans[s].tabId) : TabsGetCallback(s, r)
    \/ \E s \in ScanIds : \E f \in BOOLEAN : ExecuteScriptSettled(s, f)
    \/ \E s \in ScanIds : \E a \in LinkAnswers : SendMessageCallback(s, a)
    \/ \E s \in ScanIds : \E i \in 1..3 : \E o \in PlaylistOutcomes : GetSettled(s, i, o)
    \/ \E s \in ScanIds : \E i \in 1..3 : \E o \in PlaylistOutcomes : Get2Settled(s, i, o)
    \/ \E s \in ScanIds : Respond(s)

SpecPlaylists == Init /\ [][NextPlaylists]_vars

\* ------------------------------------------------------------------------
\* Scans of tabs that reload
\* ------------------------------------------------------------------------

\* The requests of the pages: a video and a subtitle file in tab 1, a
\* subtitle file in tab 2
ReloadUrls(t) == IF t = 2 THEN { UrlVtt } ELSE { UrlMp4, UrlVtt }

\* The size probe fails or tells the size
ReloadHeadOutcomes == { [rejected |-> TRUE], [ok |-> TRUE, contentLength |-> <<"7">>] }

\* No scan of the tab is in progress
NoScanOf(tabId) ==
    \A s \in ScanIds : scans[s].pc \in {"idle", "responded"} \/ scans[s].tabId # tabId

\* Pages that request media, reload between two scans and request it again or
\* not; the content script finds nothing in the document.
NextReload ==
    \/ \E t \in TabIds : \E u \in ReloadUrls(t) : OnBeforeRequest(t, u)
    \/ \E t \in TabIds : OnRemoved(t)
    \/ \E t \in TabIds : NoScanOf(t) /\ Reload(t)
    \/ \E s \in ScanIds : \E t \in TabIds : ScanPage(s, t)
    \/ \E s \in ScanIds : \E r \in { <<>>, <<[id |-> scans[s].tabId, url |-> HttpPage]>> } :
          TabsGetCallback(s, r)
    \/ \E s \in ScanIds : \E f \in BOOLEAN : ExecuteScriptSettled(s, f)
    \/ \E s \in ScanIds : \E a \in { <<>>, << <<>> >> } : SendMessageCallback(s, a)
    \/ \E s \in ScanIds : \E i \in 1..3 : \E o \in ReloadHeadOutcomes : HeadSettled(s, i, o)
    \/ \E s \in ScanIds : Respond(s)

SpecReload == Init /\ [][NextReload]_vars

\* ------------------------------------------------------------------------
\* The side panel in a window with two tabs
\* ------------------------------------------------------------------------

InitPanel ==
    /\ tabMediaCache = <<>>
    /\ heap = <<>>
    /\ now = 0
    /\ closedTabs = {}
    /\ scans = [s \in ScanIds |-> IdleScan]
    /\ scanCount = 0
    /\ download = IdleDownload
    /\ classifier = NoCalls
    /\ page = NoPage
    /\ notified = <<>>
    /\ stale = NoReload
    /\ panel = OpenedPanel

NextPanel ==
    \/ \E t \in TabIds : TabActivated(t)
    \/ \E t \in TabIds : TabUpdated(t)
    \/ NewMediaMessage
    \/ \E k \in DOMAIN panel.calls : \E tabs \in QueryResults(panel) : QuerySettled(k, tabs)
    \/ \E k \in DOMAIN panel.calls : \E r \in PanelResponses(panel.calls[k].tabId) :
          ScanResponse(k, r)
    \/ \E i \in DOMAIN panel.rendered : ClickDownload(i)
    \/ \E i \in DOMAIN panel.rendered : ClickCancel(i)
    \/ \E r \in DOMAIN panel.runs : RunEnds(r)

SpecPanel == InitPanel /\ [][NextPanel]_vars

\* ------------------------------------------------------------------------
\* The content script in one document
\* ------------------------------------------------------------------------

InitContent ==
    /\ tabMediaCache = <<>>
    /\ heap = <<>>
    /\ now = 0
    /\ closedTabs = {}
    /\ scans = [s \in ScanIds |-> IdleScan]
    /\ scanCount = 0
    /\ download = IdleDownload
    /\ classifier = NoCalls
    /\ notified = <<>>
    /\ stale = NoReload
    /\ panel = NoPanel
    /\ \E d \in Documents : page = [NoPage EXCEPT !.document = d]

NextContent ==
    \/ Inject
    \/ ExtractDomMedia

SpecContent == InitContent /\ [][NextContent]_vars

\* ------------------------------------------------------------------------
\* Properties
\* ------------------------------------------------------------------------

\* The URLs of a tab's cache, in the order of the array
CacheUrls(t) == [i \in DOMAIN tabMediaCache[t] |-> heap[tabMediaCache[t][i]].url]

\* C1: after every network request event each tab's cache holds at most 100
\* entries.
C1_CacheBounded ==
    \A t \in DOMAIN tabMediaCache : Len(tabMediaCache[t]) <= MaxEntries

\* A full cache that has already evicted its two oldest entries.
C1_Witness ==
    \E t \in DOMAIN tabMediaCache :
        /\ Len(tabMediaCache[t]) = MaxEntries
        /\ CacheUrls(t)[1] = Filler(3)

\* C2: an append to a full cache removes exactly the oldest entry and keeps
\* the order of the others; an append to a cache that is not full removes
\* nothing; the appended URL was not present; and a request for a URL that is
\* present leaves the tab's cache as it is.
C2_EvictOldest ==
    [][\A t \in TabIds :
         /\ (t \in DOMAIN tabMediaCache /\ t \in DOMAIN tabMediaCache'
                /\ tabMediaCache'[t] # tabMediaCache[t]) =>
              LET old  == tabMediaCache[t]
                  new  == tabMediaCache'[t]
                  last == new[Len(new)]
              IN  /\ new = (IF Len(old) = MaxEntries THEN Tail(old) ELSE old) \o <<last>>
                  /\ \A i \in DOMAIN old : heap[old[i]].url # heap'[last].url
                  /\ \A i \in DOMAIN new : i < Len(new) => heap'[new[i]] = heap[new[i]]
         /\ \A u \in StoreUrls(t) :
              (/\ t \in DOMAIN tabMediaCache
               /\ \E i \in DOMAIN tabMediaCache[t] : heap[tabMediaCache[t][i]].url = u
               /\ OnBeforeRequest(t, u)) =>
                   (t \in DOMAIN tabMediaCache' /\ CacheUrls(t)' = CacheUrls(t))
      ]_vars

\* The cache that held fillers 1..100 after one more append: filler 1 is
\* gone, the others kept their order and the new entry is last.
C2_Witness ==
    \E t \in DOMAIN tabMediaCache :
        /\ Len(tabMediaCache[t]) = MaxEntries
        /\ CacheUrls(t)[1] = Filler(2)
        /\ CacheUrls(t)[MaxEntries - 1] = Filler(MaxEntries)
        /\ CacheUrls(t)[MaxEntries] = UrlM3u8

\* C3: every cache entry has a URL that does not start with blob: and that
\* the classifier takes for media, the classifier's kind for that URL and
\* source 'network'; no two entries of one cache have the same URL.
C3_EntriesValid ==
    \A t \in DOMAIN tabMediaCache :
        \A i \in DOMAIN tabMediaCache[t] :
            LET e == heap[tabMediaCache[t][i]] IN
                /\ ~StartsWith(e.url, BlobPrefix)
                /\ PatternTest(VIDEO \cup AUDIO \cup STREAMING \cup SUBTITLES, e.url)
                /\ e.type = getMediaType(e.url)
                /\ e.type \in {"video", "audio", "streaming", "subtitle"}
                /\ e.source = "network"
                /\ \A j \in DOMAIN tabMediaCache[t] :
                       heap[tabMediaCache[t][j]].url = e.url => j = i

\* A cache with a video and a streaming entry, after requests that were
\* ignored could have been made, both touched by a scan's enrichment.
C3_Witness ==
    \E t \in DOMAIN tabMediaCache :
        /\ Len(tabMediaCache[t]) = 2
        /\ heap[tabMediaCache[t][1]].type = "streaming"
        /\ "hlsType" \in DOMAIN heap[tabMediaCache[t][1]]
        /\ heap[tabMediaCache[t][2]].type = "video"
        /\ "size" \in DOMAIN heap[tabMediaCache[t][2]]

\* C4 (as claimed): once onRemoved has been handled for a tab, the cache map
\* holds no array for that tab, whatever requests arrive later.
C4_NoCacheAfterClose ==
    \A t \in closedTabs : t \notin DOMAIN tabMediaCache

\* The contents of the store: for each tab, the entries with all their fields
StoreView ==
    [t \in DOMAIN tabMediaCache |->
        [i \in DOMAIN tabMediaCache[t] |-> heap[tabMediaCache[t][i]]]]

\* C5 (as claimed): no step of a scan changes the store: every tab's cache
\* has the same entries, in the same order and with the same field values,
\* before and after the step, and no cache is created.
C5_ScanLeavesStore ==
    [][scans' # scans => StoreView' = StoreView]_vars

\* The scan has responded.
RespondedWith(s, field) ==
    /\ scans[s].pc = "responded"
    /\ field \in DOMAIN scans[s].response[1]

\* C6: a scan whose tab has a protected URL (one of the five prefixes, or no
\* URL) has responded with the protected-page error and has called nothing
\* but chrome.tabs.get: no injection, no extraction message, no store read.
C6_ProtectedFailsFast ==
    \A s \in ScanIds :
        (/\ scans[s].tab # <<>>
         /\ \/ "url" \notin DOMAIN scans[s].tab[1]
            \/ scans[s].tab[1].url = <<>>
            \/ \E p \in ProtectedPrefixes : StartsWith(scans[s].tab[1].url, p))
        => /\ scans[s].pc = "responded"
           /\ scans[s].response = <<[error |-> ProtectedError]>>
           /\ scans[s].calls = {"tabs.get"}

\* A scan of a view-source: page has responded while the tab's cache holds
\* entries it could have read.
C6_Witness ==
    \E s \in ScanIds :
        /\ scans[s].tab # <<>>
        /\ "url" \in DOMAIN scans[s].tab[1]
        /\ StartsWith(scans[s].tab[1].url, <<"v","i","e","w","-","s","o","u","r","c","e",":">>)
        /\ RespondedWith(s, "error")
        /\ scans[s].tabId \in DOMAIN tabMediaCache

\* The positions of list at which url occurs
UrlPositions(list, url) == { k \in DOMAIN list : list[k].url = url }

FirstPosition(list, url) ==
    CHOOSE k \in UrlPositions(list, url) : \A j \in UrlPositions(list, url) : k <= j

\* merged holds each URL of dom and of network exactly once and nothing else;
\* the item of a URL of dom is the first dom item with that URL; the item of
\* any other URL is the first network item with it.
MergedAsClaimed(dom, network, merged) ==
    LET urls == { dom[k].url : k \in DOMAIN dom } \cup { network[k].url : k \in DOMAIN network }
    IN  /\ \A u \in urls : Cardinality(UrlPositions(merged, u)) = 1
        /\ \A k \in DOMAIN merged : merged[k].url \in urls
        /\ \A u \in urls :
              LET item == merged[FirstPosition(merged, u)]
              IN  IF UrlPositions(dom, u) # {}
                  THEN item = dom[FirstPosition(dom, u)] /\ item.source = "dom"
                                /\ "tagName" \in DOMAIN item
                  ELSE item = network[FirstPosition(network, u)]

\* C7: the merged list of a scan holds each distinct URL of the DOM list and
\* of the network list once; a URL of both lists is represented by the DOM
\* item; every item whose URL no earlier item has is present.
C7_MergeFirstWins ==
    [][\A s \in ScanIds : \A a \in DomAnswers :
         (scans[s].pc = "sendMessage" /\ a # <<>> /\ SendMessageCallback(s, a)) =>
             MergedAsClaimed(a[1],
                             IF scans[s].tabId \in DOMAIN StoreView
                             THEN StoreView[scans[s].tabId] ELSE <<>>,
                             [k \in DOMAIN scans'[s].merged |-> heap'[scans'[s].merged[k]]])
      ]_vars

\* A merge of a DOM list and a cache that have a URL in common and a URL
\* each of their own.
C7_Witness ==
    \E s \in ScanIds :
        /\ scans[s].pc = "enrich"
        /\ Len(scans[s].merged) = 3
        /\ heap[scans[s].merged[1]] = DomSource
        /\ heap[scans[s].merged[2]] = DomTrack
        /\ heap[scans[s].merged[3]].source = "network"
        /\ scans[s].tabId \in DOMAIN tabMediaCache
        /\ \E i \in DOMAIN tabMediaCache[scans[s].tabId] :
               heap[tabMediaCache[scans[s].tabId][i]].url = DomSource.url

\* C8: when the extraction message gets no answer, the merged list is the
\* tab's cache as it is then (the same objects, in order), and the scan
\* responds with these items as enrichment left them, and with no error.
C8_NoAnswerNetworkOnly ==
    [][\A s \in ScanIds :
         /\ (scans[s].pc = "sendMessage" /\ scans'[s].pc = "enrich"
                /\ ~scans'[s].domAnswered) =>
               scans'[s].merged = (IF scans[s].tabId \in DOMAIN tabMediaCache
                                   THEN tabMediaCache[scans[s].tabId] ELSE <<>>)
         /\ (scans[s].pc = "enrich" /\ ~scans[s].domAnswered /\ scans'[s].pc # "enrich") =>
               /\ scans'[s].pc = "responded"
               /\ scans'[s].response =
                     <<[results |-> [i \in DOMAIN scans[s].merged |-> heap[scans[s].merged[i]]]]>>
               /\ \A i \in DOMAIN scans[s].merged :
                     heap[scans[s].merged[i]].source = "network"
      ]_vars

\* A scan without DOM answer has responded with two network items.
C8_Witness ==
    \E s \in ScanIds :
        /\ RespondedWith(s, "results")
        /\ ~scans[s].domAnswered
        /\ "tabs.sendMessage" \in scans[s].calls
        /\ Len(scans[s].response[1].results) = 2

\* C9: a scan that has started enrichment ends only by responding, when the
\* function of every merged item has returned; the response is a result list,
\* never an error; it holds the merged items, each once and in order, with the
\* url, type and source they had when they were merged.
C9_RespondAfterAllSettled ==
    [][\A s \in ScanIds :
         /\ (scans[s].pc = "enrich" /\ scans'[s].pc # "enrich") =>
               /\ scans'[s].pc = "responded"
               /\ \A i \in DOMAIN scans[s].tasks : scans[s].tasks[i].pc = "done"
               /\ DOMAIN scans'[s].response[1] = {"results"}
               /\ LET results == scans'[s].response[1].results
                  IN  /\ Len(results) = Len(scans[s].merged)
                      /\ \A i \in DOMAIN results :
                            /\ results[i].url = heap[scans[s].merged[i]].url
                            /\ results[i].type = heap[scans[s].merged[i]].type
                            /\ results[i].source = heap[scans[s].merged[i]].source
                            /\ \A j \in DOMAIN results : results[j].url = results[i].url => j = i
         /\ (scans[s].pc = "enrich" /\ scans'[s].pc = "enrich") =>
               /\ scans'[s].merged = scans[s].merged
               /\ \A i \in DOMAIN scans[s].merged :
                     /\ heap'[scans[s].merged[i]].url = heap[scans[s].merged[i]].url
                     /\ heap'[scans[s].merged[i]].type = heap[scans[s].merged[i]].type
                     /\ heap'[scans[s].merged[i]].source = heap[scans[s].merged[i]].source
      ]_vars

\* A response of three items of which the audio item got no size and the
\* streaming item no manifest role: their requests had failed.
C9_Witness ==
    \E s \in ScanIds :
        /\ RespondedWith(s, "results")
        /\ Len(scans[s].response[1].results) = 3
        /\ \E i \in 1..3 : /\ scans[s].response[1].results[i].type = "audio"
                           /\ "size" \notin DOMAIN scans[s].response[1].results[i]
        /\ \E i \in 1..3 : /\ scans[s].response[1].results[i].type = "streaming"
                           /\ "hlsType" \notin DOMAIN scans[s].response[1].results[i]

\* C10 (as claimed): a video or audio item whose size probe in this scan was
\* rejected (a failure or the timeout) or answered with a non-OK status is
\* returned by this scan without a size field.
C10_FailedProbeNoSize ==
    [][\A s \in ScanIds :
         (scans[s].pc = "enrich" /\ scans'[s].pc = "responded") =>
            \A i \in DOMAIN scans[s].tasks :
               ("probe" \in DOMAIN scans[s].tasks[i]
                    /\ scans[s].tasks[i].probe \in {"rejected", "not ok"}) =>
                  "size" \notin DOMAIN scans'[s].response[1].results[i]
      ]_vars

\* C11 (as claimed): a scan whose script injection succeeded eventually
\* responds, whatever the enrichment requests do.
C11_ScanEventuallyResponds ==
    \A s \in ScanIds : (scans[s].pc = "sendMessage") ~> (scans[s].pc = "responded")

\* The lists of references that the playlists of the server are written from
PlaylistRefs == UNION { [1..k -> SegmentNames] : k \in 0..MaxSegments } \cup { OddRefs }

\* The bodies of the segments that refs names, one after the other
RECURSIVE BodiesInOrder(_)
BodiesInOrder(refs) ==
    IF refs = <<>> THEN <<>>
    ELSE (IF Head(refs) = HttpScheme THEN <<>> ELSE SegmentBody(HostPrefix \o Head(refs)))
         \o BodiesInOrder(Tail(refs))

\* C12: on success the saved payload is the concatenation of the segment
\* bodies in the order of the playlist's segment lines, each line fetched
\* exactly once, whatever the order of the lines.
C12_PayloadInOrder ==
    download.pc = "returned" =>
        /\ download.saved # <<>>
        /\ \E refs \in PlaylistRefs : download.text = PlaylistText(refs)
        /\ \A refs \in PlaylistRefs :
              download.text = PlaylistText(refs) => download.saved[1] = BodiesInOrder(refs)
        /\ download.fetched = [k \in 1..Len(download.segmentUrls) |-> k - 1]

\* The playlist c.ts, a.ts, b.ts has been saved.
C12_Witness ==
    /\ download.pc = "returned"
    /\ download.text = PlaylistText(<< <<"c",".","t","s">>, <<"a",".","t","s">>, <<"b",".","t","s">> >>)
    /\ download.saved = << <<4, 5, 6, 1, 2, 3>> >>

\* C13: at most one segment request is in flight; the requests are issued in
\* playlist order, each after the body of the one before it has been received.
C13_OneSegmentInFlight ==
    /\ Cardinality(download.inflight) <= 1
    /\ \A k \in DOMAIN download.requested :
          /\ download.requested[k] = k - 1
          /\ k > 1 => \E j \in DOMAIN download.fetched : download.fetched[j] = k - 2

\* The third segment is in flight after the first two have been received.
C13_Witness ==
    /\ download.requested = <<0, 1, 2>>
    /\ download.inflight = {2}
    /\ download.fetched = <<0, 1>>

\* C14 (as claimed): once the signal is raised no segment request is started
\* and no file is saved.
C14_NoSaveAfterCancel ==
    [][download.aborted =>
          /\ download'.requested = download.requested
          /\ download'.saved = <<>>]_vars

\* C15 (as claimed): a run in which the signal was raised ends with the error
\* 'Download aborted', which the caller takes for a cancellation.
C15_CancelledError ==
    (download.pc = "thrown" /\ download.aborted) =>
        /\ download.error = <<AbortedError>>
        /\ CallerSees(download) = "cancelled"

\* C16 (as claimed): when the fetch of segment i fails, by a non-OK status or
\* by a rejection, the run ends with the error that names i, requests nothing
\* more and saves nothing.
C16_SegmentFailureNamed ==
    [][(download.pc \in {"segment", "segment.arrayBuffer"}
            /\ download'.pc = "thrown" /\ ~download'.aborted) =>
          /\ download'.error = <<SegmentError(download.i)>>
          /\ download'.requested = download.requested
          /\ download'.saved = <<>>]_vars

\* C17: a blob URL and a save exist only in a run that fetched the manifest
\* and every segment of the playlist successfully; a run that ended with an
\* error has neither.
C17_SaveOnlyOnSuccess ==
    /\ (download.saved # <<>> \/ download.blobUrls # <<>>) =>
          /\ download.pc = "returned"
          /\ \E r \in Range(download.responses) : r.pc = "manifest"
          /\ \A r \in Range(download.responses) : r.ok
          /\ download.segmentUrls # <<>>
          /\ \A k \in 1..Len(download.segmentUrls) :
                /\ \E r \in Range(download.responses) : r.pc = "segment" /\ r.i = k - 1
                /\ \E j \in DOMAIN download.fetched : download.fetched[j] = k - 1
    /\ download.pc = "thrown" => (download.saved = <<>> /\ download.blobUrls = <<>>)

\* Three segments reached through a master playlist have been saved.
C17_Witness ==
    /\ download.saved # <<>>
    /\ Len(download.blobUrls) = 1
    /\ Len(download.segmentUrls) = 3
    /\ \E r \in Range(download.responses) : r.pc = "stream"

\* C18 (as claimed): every report is (segments fetched so far, segments of the
\* playlist); every successful segment fetch is followed by a report of the
\* new count; the counts never decrease; a run that succeeds has reported
\* (n, n) last.
C18_ProgressReports ==
    [][LET total == Len(download'.segmentUrls)
       IN  /\ download'.reports # download.reports =>
                 /\ download'.reports =
                       Append(download.reports, <<Len(download'.fetched), total>>)
                 /\ download.reports # <<>> =>
                       download.reports[Len(download.reports)][1] <= Len(download'.fetched)
           /\ download'.fetched # download.fetched => download'.reports # download.reports
           /\ download'.pc = "returned" =>
                 download'.reports[Len(download'.reports)] = <<total, total>>
      ]_vars

\* Some extension of exts stands in url after a dot, letters in either case,
\* and is followed by the end of url or by a question mark.
HasExtension(exts, url) ==
    \E p \in 1..Len(url) : \E n \in 1..(Len(url) - p) :
        /\ url[p] = "."
        /\ [k \in 1..n |-> Lower(url[p + k])] \in exts
        /\ (p + n = Len(url) \/ url[p + n + 1] = "?")

\* The first kind, in the order video, audio, streaming, subtitle, that has an
\* extension in url
ClaimedKind(url) ==
    IF HasExtension(VIDEO, url) THEN "video"
    ELSE IF HasExtension(AUDIO, url) THEN "audio"
    ELSE IF HasExtension(STREAMING, url) THEN "streaming"
    ELSE IF HasExtension(SUBTITLES, url) THEN "subtitle"
    ELSE "unknown"

\* C19: on a URL string getMediaType returns the first kind, in the order
\* video, audio, streaming, subtitle, whose pattern matches, and 'unknown'
\* exactly when none does; isMediaUrl is true exactly when that kind is not
\* 'unknown'; a repeated call returns what the first call returned.
C19_FirstKindWins ==
    classifier.input.t = "string" =>
        \A k \in DOMAIN classifier.calls :
            LET c == classifier.calls[k]
            IN  /\ c.fn = "getMediaType" =>
                      /\ ~c.result.threw
                      /\ c.result.value = ClaimedKind(classifier.input.s)
                /\ c.fn = "isMediaUrl" =>
                      /\ ~c.result.threw
                      /\ c.result.value = (ClaimedKind(classifier.input.s) # "unknown")
                /\ \A j \in DOMAIN classifier.calls :
                      classifier.calls[j].fn = c.fn =>
                          classifier.calls[j].result = c.result

\* Two calls of getMediaType on a URL with an audio extension before its
\* query and a video extension at its end.
C19_Witness ==
    /\ classifier.input = String(UrlAudioThenVideo)
    /\ Len(classifier.calls) = 2
    /\ \A k \in 1..2 : /\ classifier.calls[k].fn = "getMediaType"
                       /\ classifier.calls[k].result.value = "video"

\* C20 (as claimed): getMediaType and getHlsType return for every argument,
\* and an argument that is not a string yields 'unknown' or null.
C20_NeverThrows ==
    \A k \in DOMAIN classifier.calls :
        LET c == classifier.calls[k]
        IN  /\ c.fn = "getMediaType" =>
                  /\ ~c.result.threw
                  /\ classifier.input.t # "string" => c.result.value = "unknown"
            /\ c.fn = "getHlsType" =>
                  /\ ~c.result.threw
                  /\ classifier.input.t # "string" => c.result.value = <<>>

\* The characters of marker stand in content, one after the other
Occurs(marker, content) ==
    \E i \in 0..(Len(content) - Len(marker)) :
        \A k \in 1..Len(marker) : content[i + k] = marker[k]

\* C21: getHlsType returns 'master' for content that has the master marker,
\* with or without the media marker; 'media' for content that has the media
\* marker only; null for content that has neither.
C21_MasterMarkerFirst ==
    classifier.input.t = "string" =>
        \A k \in DOMAIN classifier.calls :
            classifier.calls[k].fn = "getHlsType" =>
                /\ ~classifier.calls[k].result.threw
                /\ classifier.calls[k].result.value =
                      IF Occurs(StreamInfMarker, classifier.input.s) THEN <<"master">>
                      ELSE IF Occurs(TargetDurationMarker, classifier.input.s) THEN <<"media">>
                      ELSE <<>>

\* getHlsType has returned 'master' for the manifest that has both markers,
\* the media marker first.
C21_Witness ==
    /\ classifier.input = String(BothMarkers)
    /\ Occurs(TargetDurationMarker, BothMarkers)
    /\ \E k \in DOMAIN classifier.calls :
          /\ classifier.calls[k].fn = "getHlsType"
          /\ classifier.calls[k].result.value = <<"master">>

\* The lists sendResponse was called with, over all requests
DomLists == UNION { Range(page.requests[k].responses) : k \in DOMAIN page.requests }

\* C22 (as claimed): no item of a DOM list has a javascript:, data: or blob:
\* URL, however the candidate was spelled; every url is absolute; and a
\* candidate that cannot be resolved does not keep the list from being sent.
C22_NoScriptDataBlobUrl ==
    /\ \A list \in DomLists : \A i \in DOMAIN list :
          /\ UrlScheme(list[i].url) # <<>>
          /\ UrlScheme(list[i].url) \notin { <<"j","a","v","a","s","c","r","i","p","t">>, <<"d","a","t","a">>, <<"b","l","o","b">> }
    /\ \A k \in DOMAIN page.requests :
          page.requests[k].injections >= 1 => page.requests[k].responses # <<>>

\* The place of an item's source in the order media elements and their
\* children, hyperlinks, script text, JSON values
SourceRank(tagName) ==
    CASE tagName \in {"video", "audio", "source", "track"} -> 1
      [] tagName = "a" -> 2
      [] tagName = "script" -> 3
      [] OTHER -> 4

\* Candidate c is admitted by addUniqueMedia and resolves to url
Finds(c, url) ==
    /\ ~Rejected(c.url)
    /\ NewUrl(c.url, BaseUri) = <<url>>
    /\ c.type # <<>> \/ getMediaTypeOrNull(url) # <<>>

\* C23: a DOM list has no two items with the same URL, has an item for every
\* URL that some source finds, and the item of a URL is from the earliest of
\* the sources that find it.
C23_FirstSourceWins ==
    \A list \in DomLists :
        /\ \A i, j \in DOMAIN list : list[i].url = list[j].url => i = j
        /\ \A c \in Range(Candidates(page.document)) :
              \A u \in Range(NewUrl(c.url, BaseUri)) :
                  Finds(c, u) => \E i \in DOMAIN list : list[i].url = u
        /\ \A i \in DOMAIN list : \A c \in Range(Candidates(page.document)) :
              Finds(c, list[i].url) => SourceRank(list[i].tagName) <= SourceRank(c.tagName)

\* A list with an item from a media element whose URL a hyperlink and a JSON
\* value name as well.
C23_Witness ==
    \E list \in DomLists : \E i \in DOMAIN list :
        /\ SourceRank(list[i].tagName) = 1
        /\ \E c \in Range(Candidates(page.document)) :
              Finds(c, list[i].url) /\ SourceRank(c.tagName) = 2
        /\ \E c \in Range(Candidates(page.document)) :
              Finds(c, list[i].url) /\ SourceRank(c.tagName) = 4

\* C24: once content.js has run in a document, one listener is registered
\* however often it runs again; every extraction request made from then on
\* gets one response, and all of them carry the same list.
C24_OneListener ==
    /\ page.injections >= 1 => page.listeners = 1
    /\ \A k \in DOMAIN page.requests :
          page.requests[k].injections >= 1 => Len(page.requests[k].responses) = 1
    /\ \A j, k \in DOMAIN page.requests :
          page.requests[j].injections >= 1 /\ page.requests[k].injections >= 1
             => page.requests[j].responses = page.requests[k].responses

\* content.js has run twice, with a request after each run, and both requests
\* got one list with items.
C24_Witness ==
    /\ page.injections = 2
    /\ Len(page.requests) = 2
    /\ page.requests[1].injections = 1
    /\ page.requests[2].injections = 2
    /\ \A k \in 1..2 : /\ Len(page.requests[k].responses) = 1
                       /\ page.requests[k].responses[1] # <<>>

\* The request names no tab, or a blob: URL, or a URL of no media kind, or a
\* URL that an entry of the tab's collection has
RejectedRequest(t, u) ==
    \/ t < 0
    \/ StartsWith(u, BlobPrefix)
    \/ ClaimedKind(u) = "unknown"
    \/ t \in DOMAIN tabMediaCache /\ u \in Range(CacheUrls(t))

\* C25: a run of the network listener that appends an entry sends one
\* 'new_media_detected' message, for the entry's tab and URL, whose rejection
\* is ignored, and the entry is in the collection after the run; a run on a
\* rejected request sends nothing and leaves the store as it is.
C25_NotifiedOncePerAppend ==
    [][\A t \in RequestTabIds : \A u \in StoreUrls(t) :
         OnBeforeRequest(t, u) =>
             IF RejectedRequest(t, u)
             THEN notified' = <<>> /\ StoreView' = StoreView
             ELSE /\ Len(notified') = 1
                  /\ notified'[1].action = "new_media_detected"
                  /\ notified'[1].tabId = t
                  /\ notified'[1].url = u
                  /\ notified'[1].onRejected = "ignore"
                  /\ u \in Range(CacheUrls(t)')
      ]_vars

\* The listener has just appended an entry to a full collection and sent the
\* message for it.
C25_Witness ==
    /\ Len(notified) = 1
    /\ notified[1].tabId \in DOMAIN tabMediaCache
    /\ Len(tabMediaCache[notified[1].tabId]) = MaxEntries
    /\ CacheUrls(notified[1].tabId)[MaxEntries] = notified[1].url

\* C26: a run of the network listener that appends an entry for one tab
\* leaves every other tab's collection as it is, present or absent; the
\* network items a scan merges are entries of the scanned tab's own
\* collection, and the network items it returns have URLs that were requested
\* in that tab.
C26_TabsIsolated ==
    [][/\ notified' # <<>> =>
            \A other \in TabIds \ {notified'[1].tabId} :
                /\ other \in DOMAIN tabMediaCache' <=> other \in DOMAIN tabMediaCache
                /\ other \in DOMAIN tabMediaCache =>
                      /\ tabMediaCache'[other] = tabMediaCache[other]
                      /\ StoreView'[other] = StoreView[other]
       /\ \A s \in ScanIds :
            /\ \A i \in DOMAIN scans'[s].merged :
                  scans'[s].merged[i][1] = "net" => scans'[s].merged[i][2] = scans'[s].tabId
            /\ RespondedWith(s, "results")' =>
                  \A i \in DOMAIN scans'[s].response[1].results :
                      scans'[s].response[1].results[i].source = "network" =>
                          scans'[s].response[1].results[i].url \in ScanUrls(scans'[s].tabId)
      ]_vars

\* A scan of tab 2 has returned a network item while the collection of tab 1
\* holds an entry for a URL that was never requested in tab 2.
C26_Witness ==
    \E s \in ScanIds :
        /\ RespondedWith(s, "results")
        /\ scans[s].tabId = 2
        /\ \E i \in DOMAIN scans[s].response[1].results :
              scans[s].response[1].results[i].source = "network"
        /\ 1 \in DOMAIN tabMediaCache
        /\ \E u \in Range(CacheUrls(1)) : u \notin ScanUrls(2)

\* The URLs of a list of items of heap h
UrlsOf(h, list) == [i \in DOMAIN list |-> h[list[i]].url]

\* C27: on the lists of a merge, dom followed by network: merging the list
\* with itself, or merging the merged list again, gives the URLs of one
\* merge, and mergeAndDeduplicate(dom, network) is deduplicateMedia of dom
\* followed by network, item for item.
C27_MergeIdempotent ==
    [][\A s \in ScanIds :
         (scans[s].pc = "sendMessage" /\ scans'[s].pc = "enrich") =>
             LET merged  == scans'[s].merged
                 dom     == SelectSeq(merged, LAMBDA id : id[1] = "dom")
                 network == NetworkResults(tabMediaCache, scans[s].tabId)
                 list    == dom \o network
             IN  /\ merged = deduplicateMedia(heap', list)
                 /\ UrlsOf(heap', mergeAndDeduplicate(heap', list, list)) = UrlsOf(heap', merged)
                 /\ UrlsOf(heap', mergeAndDeduplicate(heap', list \o list, <<>>))
                       = UrlsOf(heap', merged)
                 /\ mergeAndDeduplicate(heap', merged, <<>>) = merged
                 /\ deduplicateMedia(heap', merged) = merged
                 /\ UrlsOf(heap', deduplicateMedia(heap', list \o list)) = UrlsOf(heap', merged)
      ]_vars

\* A merge of the link the page has for the manifest with a collection that
\* holds the manifest and a video: the list has three items for two URLs.
C27_Witness ==
    \E s \in ScanIds :
        /\ scans[s].pc = "enrich"
        /\ Len(scans[s].merged) = 2
        /\ heap[scans[s].merged[1]] = DomLink
        /\ heap[scans[s].merged[2]].source = "network"
        /\ scans[s].tabId \in DOMAIN tabMediaCache
        /\ Len(tabMediaCache[scans[s].tabId]) = 2
        /\ DomLink.url \in Range(CacheUrls(scans[s].tabId))

\* C28 (as claimed): when the manifest request of an item is answered with a
\* media playlist, the item's duration is the sum of the durations that the
\* #EXTINF lines of the whole playlist declare.
C28_WholePlaylistDuration ==
    [][\A s \in ScanIds : \A i \in 1..3 : \A o \in GetOutcomes :
         (/\ scans[s].pc = "enrich"
          /\ i \in DOMAIN scans[s].tasks
          /\ scans[s].tasks[i].pc = "GET"
          /\ "text" \in DOMAIN o
          /\ Occurs(TargetDurationMarker, o.text)
          /\ ~Occurs(StreamInfMarker, o.text)
          /\ GetSettled(s, i, o))
         => LET item == heap'[scans[s].merged[i]]
            IN  calculateHlsDuration(o.text)[1] > 0 =>
                    /\ "duration" \in DOMAIN item
                    /\ item.duration = calculateHlsDuration(o.text)[1]
      ]_vars

\* C29 (as claimed): in the results of every scan, an item with hlsType or
\* duration has type 'streaming', and an item with suggestedMaster has hlsType
\* 'media'.
C29_FieldsFollowKind ==
    \A s \in ScanIds :
        RespondedWith(s, "results") =>
            \A i \in DOMAIN scans[s].response[1].results :
                LET item == scans[s].response[1].results[i]
                IN  /\ "hlsType" \in DOMAIN item \/ "duration" \in DOMAIN item
                          => item.type = "streaming"
                    /\ "suggestedMaster" \in DOMAIN item
                          => "hlsType" \in DOMAIN item /\ item.hlsType = "media"

\* The URL up to its query or fragment, cut after its last slash, followed by
\* master.m3u8
ClaimedMaster(url) ==
    LET plain == PrefixIn(url, { url[i] : i \in 1..Len(url) } \ {"?", "#"})
        slash == CHOOSE i \in 1..Len(plain) :
                    plain[i] = "/" /\ \A j \in (i + 1)..Len(plain) : plain[j] # "/"
    IN  SubSeq(plain, 1, slash) \o <<"m","a","s","t","e","r",".","m","3","u","8">>

\* C30: when the manifest request of an item settles and leaves the item with
\* hlsType 'media', the item's suggestedMaster is its URL without query and
\* fragment, with the file name replaced by master.m3u8, and the item's
\* function has returned: it waits for no further request.
C30_SuggestedMaster ==
    [][\A s \in ScanIds : \A i \in 1..3 :
         (/\ scans[s].pc = "enrich"
          /\ i \in DOMAIN scans[s].tasks
          /\ scans[s].tasks[i].pc = "GET"
          /\ scans'[s].pc = "enrich"
          /\ scans'[s].tasks[i].pc # "GET"
          /\ "hlsType" \in DOMAIN heap'[scans[s].merged[i]]
          /\ heap'[scans[s].merged[i]].hlsType = "media")
         => /\ "suggestedMaster" \in DOMAIN heap'[scans[s].merged[i]]
            /\ heap'[scans[s].merged[i]].suggestedMaster
                  = ClaimedMaster(heap'[scans[s].merged[i]].url)
            /\ scans'[s].tasks[i].pc = "done"
            /\ scans'[s].calls = scans[s].calls
      ]_vars

\* A scan has returned the link http://h/v/abc/level_0.m3u8?t=/x/1#f/g with the
\* suggested master http://h/v/abc/master.m3u8.
C30_Witness ==
    \E s \in ScanIds :
        /\ RespondedWith(s, "results")
        /\ \E i \in DOMAIN scans[s].response[1].results :
              /\ scans[s].response[1].results[i].url = DomLevel.url
              /\ "hlsType" \in DOMAIN scans[s].response[1].results[i]
              /\ scans[s].response[1].results[i].hlsType = "media"
              /\ scans[s].response[1].results[i].suggestedMaster
                    = HostPrefix \o <<"v","/","a","b","c","/","m","a","s","t","e","r",".","m","3","u","8">>

\* C31 (as claimed): a scan made after a reload of its tab returns no network
\* observation that was captured before the reload and has not been observed
\* again since.
C31_ReloadClearsList ==
    [][\A s \in ScanIds :
         (scans[s].pc = "enrich" /\ scans'[s].pc = "responded")
         => \A i \in DOMAIN scans'[s].response[1].results :
               scans'[s].response[1].results[i].source = "network"
               => scans'[s].response[1].results[i].url \notin stale[scans[s].tabId]
      ]_vars
\* C32 (as claimed): the step that classifies an item as master assigns it
\* nothing but hlsType (no duration, no suggested master URL); the step in which
\* the request for the first stream's playlist settles assigns the item a
\* duration only if that playlist was fetched and classifies as media, the
\* duration then being the one computed from it, and assigns nothing else.
C32_MasterDuration ==
    [][\A s \in ScanIds : \A i \in 1..3 :
         (/\ scans[s].pc = "enrich"
          /\ i \in DOMAIN scans[s].tasks
          /\ scans'[s].pc = "enrich")
         => LET id == scans[s].merged[i]
            IN  /\ (/\ scans[s].tasks[i].pc = "GET"
                     /\ scans'[s].tasks[i].pc # "GET"
                     /\ "hlsType" \in DOMAIN heap'[id]
                     /\ heap'[id].hlsType = "master")
                    => heap'[id] = SetField(heap[id], "hlsType", "master")
                /\ \A o \in PlaylistOutcomes :
                      (scans[s].tasks[i].pc = "GET2" /\ Get2Settled(s, i, o))
                      => LET mediaContent == fetchHlsContent(o)
                         IN  \/ heap'[id] = heap[id]
                             \/ /\ mediaContent # <<>>
                                /\ getHlsType(mediaContent[1]) = <<"media">>
                                /\ heap'[id] = SetField(heap[id], "duration",
                                       calculateHlsDuration(mediaContent[1])[1])
      ]_vars
\* The lines of a playlist that are not blank and are not comments, trimmed,
\* in file order
RECURSIVE ReferenceLines(_)
ReferenceLines(lines) ==
    IF lines = <<>> THEN <<>>
    ELSE (IF Trim(Head(lines)) # <<>> /\ Head(lines)[1] # "#"
          THEN <<Trim(Head(lines))>> ELSE <<>>)
         \o ReferenceLines(Tail(lines))

\* A URL up to and including the last slash of it
DirectoryOf(url) ==
    SubSeq(url, 1, CHOOSE i \in 1..Len(url) :
                      url[i] = "/" /\ \A j \in (i + 1)..Len(url) : url[j] # "/")

\* The URLs of the playlists that the master playlists of the servers name
StreamUrls == { HostPrefix \o <<"l","o","w",".","m","3","u","8">>, HostPrefix \o <<"v","/","l","o","w",".","m","3","u","8">> }

\* The playlist was read from the URL the run holds: the given URL, or the URL
\* of the first stream when a master playlist was resolved
ReadFromCurrentUrl ==
    IF \E r \in Range(download.responses) : r.pc = "stream"
    THEN download.currentUrl \in StreamUrls
    ELSE download.currentUrl = UrlM3u8

\* The segment list that refs give when each is a name in the playlist's directory
NamesIn(directory, refs) == [k \in 1..Len(refs) |-> directory \o refs[k]]

\* C33 (as claimed): the segment list of a run is every non-blank line of the
\* playlist that is not a comment, resolved against the URL of the playlist it
\* was read from, in file order, none omitted.
C33_EveryLineASegment ==
    download.segmentUrls # <<>> =>
        /\ ReadFromCurrentUrl
        /\ download.segmentUrls =
              NamesIn(DirectoryOf(download.currentUrl),
                      ReferenceLines(SplitLines(download.text)))

\* C33 (amended): the segment list of a run is every non-blank line of the
\* playlist that is not a comment and that new URL() accepts, resolved against
\* the URL of the playlist it was read from, in file order; a line that
\* new URL() rejects is left out.
C33_ResolvableLinesInOrder ==
    download.segmentUrls # <<>> =>
        /\ ReadFromCurrentUrl
        /\ download.segmentUrls =
              NamesIn(DirectoryOf(download.currentUrl),
                      SelectSeq(ReferenceLines(SplitLines(download.text)),
                                LAMBDA ref : ref # HttpScheme))

\* The playlist a.ts, http://, b.ts of a stream in the directory v has given
\* the segments http://h/v/a.ts and http://h/v/b.ts.
C33_Witness ==
    /\ download.text = PlaylistText(OddRefs)
    /\ download.segmentUrls = << HostPrefix \o <<"v","/","a",".","t","s">>, HostPrefix \o <<"v","/","b",".","t","s">> >>
\* C34 (as claimed): a run fetches at most two manifests, and the playlist
\* whose lines it requests as segments is not a master playlist.
C34_SegmentsOfMediaPlaylist ==
    /\ Cardinality({ k \in DOMAIN download.responses :
                       download.responses[k].pc \in {"manifest", "stream"} }) <= 2
    /\ download.requested # <<>> => getHlsType(download.text) # <<"master">>
\* The text of a playlist goes to step 3: the manifest's when it is not a
\* master playlist, the first stream's always
PlaylistDelivered ==
    /\ download.pc \in {"manifest.text", "stream.text"}
    /\ download.ready # <<>>
    /\ download'.pc # download.pc
    /\ ~(download.pc = "manifest.text" /\ Includes(download.ready[1], StreamInfMarker))

\* No line of the text is a reference that resolves
NoReference(text) ==
    \A k \in DOMAIN ReferenceLines(SplitLines(text)) :
        ReferenceLines(SplitLines(text))[k] = HttpScheme

\* C35: when a playlist without a segment reference goes to step 3, the run
\* ends there with the error 'No segments found in manifest'; it has requested
\* no segment, reported no progress, created no blob URL and saved nothing.
C35_EmptyPlaylistFails ==
    [][(PlaylistDelivered /\ NoReference(download.ready[1]))
         => /\ download'.pc = "thrown"
            /\ download'.error = <<NoSegmentsError>>
            /\ download'.requested = <<>>
            /\ download'.reports = <<>>
            /\ download'.blobUrls = <<>>
            /\ download'.saved = <<>>
      ]_vars

\* The first stream of a master playlist had a playlist without segments and
\* the run has ended with the error.
C35_Witness ==
    /\ download.pc = "thrown"
    /\ download.error = <<NoSegmentsError>>
    /\ download.text = PlaylistText(<<>>)
    /\ \E r \in Range(download.responses) : r.pc = "stream"
\* No line that starts with the stream declaration is followed by a line that
\* is not blank and is not a comment
NoFollowableStream(text) ==
    LET lines == SplitLines(text)
    IN  \A i \in DOMAIN lines :
            StartsWith(lines[i], StreamInfMarker)
            => \A j \in (i + 1)..Len(lines) :
                  Trim(lines[j]) = <<>> \/ lines[j][1] = "#"

\* C36 (as claimed): a manifest that signals a master playlist and names no
\* stream ends the run with the no-stream error and no further request; a
\* manifest or a first-stream playlist that cannot be fetched (a rejected
\* request, a non-OK status, a body that fails) ends the run with a
\* manifest-fetch error ('Failed to fetch manifest', 'Failed to fetch media
\* playlist') and no segment request.
C36_ManifestFailures ==
    [][/\ (/\ download.pc = "manifest.text"
            /\ download.ready # <<>>
            /\ download'.pc # download.pc
            /\ Includes(download.ready[1], StreamInfMarker)
            /\ NoFollowableStream(download.ready[1]))
           => /\ download'.pc = "thrown"
              /\ download'.error = <<NoStreamsError>>
              /\ download'.responses = download.responses
              /\ download'.requested = <<>>
       /\ (/\ download.pc \in {"manifest", "stream", "manifest.text", "stream.text"}
            /\ download.ready = <<>>
            /\ ~download'.aborted
            /\ download'.pc = "thrown")
           => /\ download'.error \in { <<ManifestError>>, <<PlaylistError>> }
              /\ download'.requested = <<>>
      ]_vars
\* The runs of downloadHlsStream for url that have not ended
Running(url) ==
    { r \in DOMAIN panel.runs : panel.runs[r].url = url /\ panel.runs[r].pc = "running" }

\* C37 (as claimed): for each URL at most one reconstruction is in progress;
\* while one is, the URL's entry of activeDownloads holds the controller made
\* for it; the URL has an entry only while a reconstruction for it is in
\* progress.
C37_OneRunPerUrl ==
    /\ \A r \in DOMAIN panel.runs :
          panel.runs[r].pc = "running" =>
              /\ Running(panel.runs[r].url) = {r}
              /\ panel.runs[r].url \in DOMAIN panel.activeDownloads
              /\ panel.activeDownloads[panel.runs[r].url] = r
    /\ \A url \in DOMAIN panel.activeDownloads : Running(url) # {}

\* C38 (as claimed): the list of a response replaces only the list of a scan
\* issued before its own: a response to an older scan never overwrites the
\* response to a newer one.
C38_NewestResponseShown ==
    [][panel'.currentOf # panel.currentOf => panel'.currentOf > panel.currentOf]_vars
\* The strings extractMediaFromDOM hands to a classifier: the candidates of
\* addUniqueMedia as they are passed and as the URL constructor resolves them
ClassifiedStrings(candidates) ==
    UNION { {c.url} \cup Range(NewUrl(c.url, BaseUri)) : c \in Range(candidates) }

\* seenUrls and results after each call of addUniqueMedia, from none of the
\* calls to all of them
AfterEach(candidates) ==
    [k \in 0..Len(candidates) |->
        ForEachCandidate([seenUrls |-> {}, results |-> <<>>], SubSeq(candidates, 1, k))]

\* The call of addUniqueMedia for the k-th candidate pushes an item
Admitted(after, k) == Len(after[k].results) > Len(after[k - 1].results)

\* The candidates that are hyperlinks and JSON values
LinkOrJson(candidates) ==
    { k \in DOMAIN candidates : candidates[k].tagName \in {"a", "json-data"} }

\* The two classifiers give url the same kind, null standing for 'unknown'
ClassifiersAgree(url) ==
    getMediaTypeOrNull(url) = IF isMediaUrl(url) THEN <<getMediaType(url)>> ELSE <<>>

\* C39 (as claimed): the two classifiers agree, and the URL of a hyperlink or
\* JSON value is in the DOM list exactly when isMediaUrl is true of it.
C39_AdmittedWhenMediaUrl ==
    \A list \in DomLists :
        LET cs == Candidates(page.document)
        IN  /\ \A u \in ClassifiedStrings(cs) : ClassifiersAgree(u)
            /\ \A k \in LinkOrJson(cs) :
                  (\E i \in DOMAIN list :
                      list[i].url \in {cs[k].url} \cup Range(NewUrl(cs[k].url, BaseUri)))
                  <=> isMediaUrl(cs[k].url)

\* C39 (amended): the two classifiers agree on every string the scanner
\* classifies, and the call of addUniqueMedia for a hyperlink or for a JSON
\* value that getMediaType gives a kind pushes an item exactly when the string
\* does not begin with javascript:, data: or blob:, the URL constructor
\* resolves it, the resolved URL has not been pushed before in the scan and
\* isMediaUrl is true of the resolved URL.
C39_AdmittedWhenFilterAndClassifierPass ==
    \A list \in DomLists :
        LET cs == Candidates(page.document)
            after == AfterEach(cs)
        IN  /\ \A u \in ClassifiedStrings(cs) : ClassifiersAgree(u)
            /\ list = after[Len(cs)].results
            /\ \A k \in LinkOrJson(cs) :
                  Admitted(after, k)
                  <=> /\ ~Rejected(cs[k].url)
                      /\ \E u \in Range(NewUrl(cs[k].url, BaseUri)) :
                            /\ u \notin after[k - 1].seenUrls
                            /\ isMediaUrl(u)

\* A scan of a document with a hyperlink that is pushed, a hyperlink to a
\* blob: URL that isMediaUrl is true of, a URL that matches two patterns and
\* a JSON value that is pushed.
C39_Witness ==
    /\ DomLists # {}
    /\ LET cs == Candidates(page.document)
           after == AfterEach(cs)
       IN  /\ \E k \in LinkOrJson(cs) : cs[k].tagName = "a" /\ Admitted(after, k)
           /\ \E k \in LinkOrJson(cs) : cs[k].tagName = "json-data" /\ Admitted(after, k)
           /\ \E k \in LinkOrJson(cs) : Rejected(cs[k].url) /\ isMediaUrl(cs[k].url)
           /\ \E u \in ClassifiedStrings(cs) :
                 PatternTest(VIDEO, u) /\ PatternTest(SUBTITLES, u)

====
